---- MODULE Spec2Model ----
(***************************************************************************)
(* HealthCareSystem backend: the HTTP handlers of server.go, the identity  *)
(* extraction of rbac.go and the PostgreSQL repository of repo.go over the *)
(* tables of db/schema.sql, started from the rows of db/seed.sql.          *)
(*                                                                         *)
(* Text that the code parses, trims or measures (header values, query      *)
(* values, path segments, drug names, sig) is a sequence of one-character  *)
(* strings; a nil pointer is the empty sequence and &v is <<v>>.           *)
(***************************************************************************)
EXTENDS Integers, Sequences, FiniteSets, TLC

VARIABLES patients, physicians, drugs, physician_patients, prescriptions,
          drugs_id_seq, prescriptions_id_seq, now,
          pc, req, resp, calls, audit,
          inflight, returned, result

store == <<patients, physicians, drugs, physician_patients, prescriptions,
           drugs_id_seq, prescriptions_id_seq>>
vars == <<patients, physicians, drugs, physician_patients, prescriptions,
          drugs_id_seq, prescriptions_id_seq, now, pc, req, resp, calls, audit,
          inflight, returned, result>>

(***************************************************************************)
(* Bounds of the exploration.                                              *)
(***************************************************************************)
\* prescriptions inserted through the API in one behaviour
MaxCreated == 1
\* ticks of the store's clock after the seed
MaxTicks == 1
\* goroutines that call the repository at the same time
MaxTasks == 2
\* FindOrCreateDrug calls issued in one behaviour
MaxDrugCalls == 3
\* rows of the small prescription tables the read operations are applied to
MaxRows == 2

(***************************************************************************)
(* Program constants.                                                      *)
(***************************************************************************)
MaxDrugNameLen == 200
MaxSigLen == 500
DefaultListLimit == 50
MaxListLimit == 200
DefaultTopLimit == 10
MaxTopLimit == 100
RepoDefaultLimit == 50
RepoMaxLimit == 200

StatusOK == 200
StatusCreated == 201
StatusNoContent == 204
StatusBadRequest == 400
StatusUnauthorized == 401
StatusForbidden == 403
StatusNotFound == 404
StatusMethodNotAllowed == 405
StatusInternalServerError == 500
StatusServiceUnavailable == 503

RoleAdmin == "admin"
RolePhysician == "physician"
RolePatient == "patient"

(***************************************************************************)
(* Text helpers.                                                           *)
(***************************************************************************)
Nil == <<>>
Ptr(v) == <<v>>

DigitChars == {"0", "1", "2", "3", "4", "5", "6", "7", "8", "9"}
DigitVal(c) ==
    CASE c = "0" -> 0 [] c = "1" -> 1 [] c = "2" -> 2 [] c = "3" -> 3
      [] c = "4" -> 4 [] c = "5" -> 5 [] c = "6" -> 6 [] c = "7" -> 7
      [] c = "8" -> 8 [] c = "9" -> 9

RECURSIVE DigitsValue(_)
DigitsValue(s) ==
    IF s = <<>> THEN 0
    ELSE 10 * DigitsValue(SubSeq(s, 1, Len(s) - 1)) + DigitVal(s[Len(s)])

\* strconv.ParseInt(s, 10, 64) and strconv.Atoi(s): an optional sign, then one
\* or more decimal digits and nothing else.
ParseInt(s) ==
    LET signed == s # <<>> /\ s[1] \in {"+", "-"}
        digits == IF signed THEN Tail(s) ELSE s
        ok == digits # <<>> /\ \A i \in 1..Len(digits) : digits[i] \in DigitChars
    IN  IF ~ok THEN [ok |-> FALSE, val |-> 0]
        ELSE [ok |-> TRUE,
              val |-> IF signed /\ s[1] = "-" THEN 0 - DigitsValue(digits)
                      ELSE DigitsValue(digits)]

IsSpace(c) == c = " " \/ c = "\t"

RECURSIVE TrimLeft(_)
TrimLeft(s) == IF s # <<>> /\ IsSpace(s[1]) THEN TrimLeft(Tail(s)) ELSE s

RECURSIVE TrimRight(_)
TrimRight(s) ==
    IF s # <<>> /\ IsSpace(s[Len(s)]) THEN TrimRight(SubSeq(s, 1, Len(s) - 1)) ELSE s

\* server.go 209-210: the two trimming loops of the drug name
TrimSpaces(s) == TrimRight(TrimLeft(s))

(***************************************************************************)
(* rbac.go                                                                 *)
(***************************************************************************)
\* mutant: any X-Role that is not empty is taken
readRole_AnyRole(r) ==
    IF r.role # ""
    THEN [ok |-> TRUE, role |-> r.role, msg |-> ""]
    ELSE [ok |-> FALSE, role |-> "", msg |-> "invalid or missing X-Role header"]

readRole(r) ==
    IF r.role \in {RoleAdmin, RolePhysician, RolePatient}
    THEN [ok |-> TRUE, role |-> r.role, msg |-> ""]
    ELSE [ok |-> FALSE, role |-> "", msg |-> "invalid or missing X-Role header"]

\* mutant: an id of zero or below is taken
readUserID_AnyNumber(r) ==
    IF r.user_id = <<>> THEN [ok |-> FALSE, id |-> 0, msg |-> "missing X-User-ID header"]
    ELSE LET n == ParseInt(r.user_id)
         IN  IF ~n.ok
             THEN [ok |-> FALSE, id |-> 0, msg |-> "invalid X-User-ID header"]
             ELSE [ok |-> TRUE, id |-> n.val, msg |-> ""]

readUserID(r) ==
    IF r.user_id = <<>> THEN [ok |-> FALSE, id |-> 0, msg |-> "missing X-User-ID header"]
    ELSE LET n == ParseInt(r.user_id)
         IN  IF ~n.ok \/ n.val <= 0
             THEN [ok |-> FALSE, id |-> 0, msg |-> "invalid X-User-ID header"]
             ELSE [ok |-> TRUE, id |-> n.val, msg |-> ""]

(***************************************************************************)
(* db/seed.sql: the rows the store holds when the server starts.           *)
(***************************************************************************)
Alice == <<"A", "l", "i", "c", "e">>
Bob == <<"B", "o", "b">>
DrSmith == <<"D", "r", ".", " ", "S", "m", "i", "t", "h">>
DrJones == <<"D", "r", ".", " ", "J", "o", "n", "e", "s">>
Amoxicillin == <<"A", "m", "o", "x", "i", "c", "i", "l", "l", "i", "n">>
Ibuprofen == <<"I", "b", "u", "p", "r", "o", "f", "e", "n">>
Metformin == <<"M", "e", "t", "f", "o", "r", "m", "i", "n">>
SigBID == <<"1", " ", "t", "a", "b", " ", "B", "I", "D">>
SigPRN == <<"P", "R", "N", " ", "p", "a", "i", "n">>
Sig500 == <<"5", "0", "0", "m", "g", " ", "B", "I", "D">>

\* the seed's NOW(), in days; its prescriptions are dated 3, 2 and 1 days earlier
SeedNow == 3

SeedPatients == {[id |-> 1, name |-> Alice], [id |-> 2, name |-> Bob]}
SeedPhysicians == {[id |-> 1, name |-> DrSmith], [id |-> 2, name |-> DrJones]}
SeedDrugs == {[id |-> 1, name |-> Amoxicillin], [id |-> 2, name |-> Ibuprofen],
              [id |-> 3, name |-> Metformin]}
SeedLinks == {<<1, 1>>, <<1, 2>>, <<2, 2>>}
SeedPrescriptions ==
    {[id |-> 1, patient_id |-> 1, physician_id |-> 1, drug_id |-> 1, quantity |-> 20,
      sig |-> SigBID, prescribed_at |-> SeedNow - 3],
     [id |-> 2, patient_id |-> 1, physician_id |-> 1, drug_id |-> 2, quantity |-> 30,
      sig |-> SigPRN, prescribed_at |-> SeedNow - 2],
     [id |-> 3, patient_id |-> 2, physician_id |-> 2, drug_id |-> 3, quantity |-> 60,
      sig |-> Sig500, prescribed_at |-> SeedNow - 1]}

Ids(table) == {row.id : row \in table}

(***************************************************************************)
(* repo.go: PGRepo. Every operation is one SQL statement, applied to the   *)
(* store db (the tables, their id sequences and the store's clock).        *)
(* `fault` says that the statement fails in the store (connection lost,    *)
(* cancelled context, ...) with an error that is no constraint violation.  *)
(***************************************************************************)
DB == [patients |-> patients, physicians |-> physicians, drugs |-> drugs,
       physician_patients |-> physician_patients, prescriptions |-> prescriptions,
       drugs_id_seq |-> drugs_id_seq, prescriptions_id_seq |-> prescriptions_id_seq,
       now |-> now]

ErrNone == "nil"
ErrInvalidReference == "invalid reference"
ErrStore == "store error"

\* mutant: prescriptions has no foreign keys
ForeignKeysResolve_Unchecked(db, p) == TRUE

\* schema.sql 24-32: REFERENCES patients / physicians / drugs
ForeignKeysResolve(db, p) ==
    /\ p.PatientID \in Ids(db.patients)
    /\ p.PhysicianID \in Ids(db.physicians)
    /\ p.DrugID \in Ids(db.drugs)

\* mutant: the new row replaces the patient's earlier rows of the same drug
CreatePrescription_Replaces(db, p, fault) ==
    IF fault \/ p.Quantity <= 0
    THEN [err |-> ErrStore, row |-> Nil, db |-> db]
    ELSE IF ~ForeignKeysResolve(db, p)
    THEN [err |-> ErrInvalidReference, row |-> Nil, db |-> db]
    ELSE LET row == [id |-> db.prescriptions_id_seq,
                     patient_id |-> p.PatientID, physician_id |-> p.PhysicianID,
                     drug_id |-> p.DrugID, quantity |-> p.Quantity, sig |-> p.Sig,
                     prescribed_at |-> db.now]
         IN  [err |-> ErrNone, row |-> Ptr(row),
              db |-> [db EXCEPT !.prescriptions =
                                    {old \in @ : old.patient_id # p.PatientID
                                                 \/ old.drug_id # p.DrugID} \cup {row},
                                !.prescriptions_id_seq = @ + 1]]

\* mutant: the insert reads the sequence and does not advance it
CreatePrescription_SequenceKept(db, p, fault) ==
    IF fault \/ p.Quantity <= 0
    THEN [err |-> ErrStore, row |-> Nil, db |-> db]
    ELSE IF ~ForeignKeysResolve(db, p)
    THEN [err |-> ErrInvalidReference, row |-> Nil, db |-> db]
    ELSE LET row == [id |-> db.prescriptions_id_seq,
                     patient_id |-> p.PatientID, physician_id |-> p.PhysicianID,
                     drug_id |-> p.DrugID, quantity |-> p.Quantity, sig |-> p.Sig,
                     prescribed_at |-> db.now]
         IN  [err |-> ErrNone, row |-> Ptr(row),
              db |-> [db EXCEPT !.prescriptions = @ \cup {row}]]

\* INSERT ... RETURNING id, prescribed_at: the id comes from the BIGSERIAL
\* sequence, prescribed_at from DEFAULT NOW(); nothing of p supplies them.
\* CHECK (quantity > 0) fails with an error other than 23503.
CreatePrescription(db, p, fault) ==
    IF fault \/ p.Quantity <= 0
    THEN [err |-> ErrStore, row |-> Nil, db |-> db]
    ELSE IF ~ForeignKeysResolve(db, p)
    THEN [err |-> ErrInvalidReference, row |-> Nil, db |-> db]
    ELSE LET row == [id |-> db.prescriptions_id_seq,
                     patient_id |-> p.PatientID, physician_id |-> p.PhysicianID,
                     drug_id |-> p.DrugID, quantity |-> p.Quantity, sig |-> p.Sig,
                     prescribed_at |-> db.now]
         IN  [err |-> ErrNone, row |-> Ptr(row),
              db |-> [db EXCEPT !.prescriptions = @ \cup {row},
                                !.prescriptions_id_seq = @ + 1]]

\* mutant: the two ids bound to the wrong columns
IsPhysicianPatientLinked_Swapped(db, physicianID, patientID, fault) ==
    [linked |-> ~fault /\ <<patientID, physicianID>> \in db.physician_patients,
     err |-> ErrNone]

\* mutant: the existence of the row is not looked at
IsPhysicianPatientLinked_Always(db, physicianID, patientID, fault) ==
    [linked |-> ~fault, err |-> ErrNone]

\* SELECT 1 FROM physician_patients ...: every Scan error, pgx.ErrNoRows or not,
\* is returned as (false, nil).
IsPhysicianPatientLinked(db, physicianID, patientID, fault) ==
    [linked |-> ~fault /\ <<physicianID, patientID>> \in db.physician_patients,
     err |-> ErrNone]

\* mutant: a plain INSERT, with no conflict target
FindOrCreateDrug_PlainInsert(db, name, fault) ==
    IF fault THEN [err |-> ErrStore, id |-> 0, db |-> db]
    ELSE [err |-> ErrNone, id |-> db.drugs_id_seq,
          db |-> [db EXCEPT !.drugs = @ \cup {[id |-> db.drugs_id_seq, name |-> name]},
                            !.drugs_id_seq = @ + 1]]

\* INSERT INTO drugs(name) ... ON CONFLICT (name) DO UPDATE ... RETURNING id
FindOrCreateDrug(db, name, fault) ==
    IF fault THEN [err |-> ErrStore, id |-> 0, db |-> db]
    ELSE IF \E d \in db.drugs : d.name = name
    THEN [err |-> ErrNone, id |-> (CHOOSE d \in db.drugs : d.name = name).id, db |-> db]
    ELSE [err |-> ErrNone, id |-> db.drugs_id_seq,
          db |-> [db EXCEPT !.drugs = @ \cup {[id |-> db.drugs_id_seq, name |-> name]},
                            !.drugs_id_seq = @ + 1]]

Call(op, args) == [op |-> op, args |-> args]

(***************************************************************************)
(* server.go: POST /prescriptions                                          *)
(***************************************************************************)
\* json.Decoder.Decode into createPrescriptionReq: the six tagged fields are
\* read, any other member of the body (a prescribed_at, an id) is dropped.
Decode(body) ==
    [ok |-> body.json_ok,
     PatientID |-> body.patient_id, PhysicianID |-> body.physician_id,
     DrugID |-> body.drug_id, DrugName |-> body.drug_name,
     Quantity |-> body.quantity, Sig |-> body.sig]

\* mutant: the length of drug_name is checked whether or not drug_id is given
validate_NameAlways(b) ==
    IF b.PatientID <= 0 THEN "patient_id must be > 0"
    ELSE IF b.PhysicianID <= 0 THEN "physician_id must be > 0"
    ELSE IF b.DrugID <= 0 /\ Len(b.DrugName) = 0
    THEN "either drug_id (>0) or drug_name is required"
    ELSE IF Len(b.DrugName) > MaxDrugNameLen THEN "drug_name too long"
    ELSE IF b.Quantity <= 0 THEN "quantity must be > 0"
    ELSE IF Len(b.Sig) = 0 THEN "sig is required"
    ELSE IF Len(b.Sig) > MaxSigLen THEN "sig too long"
    ELSE ""

\* createPrescriptionReq.validate: "" when the request is valid
validate(b) ==
    IF b.PatientID <= 0 THEN "patient_id must be > 0"
    ELSE IF b.PhysicianID <= 0 THEN "physician_id must be > 0"
    ELSE IF b.DrugID <= 0 /\ Len(b.DrugName) = 0
    THEN "either drug_id (>0) or drug_name is required"
    ELSE IF b.DrugID <= 0 /\ Len(b.DrugName) > MaxDrugNameLen THEN "drug_name too long"
    ELSE IF b.Quantity <= 0 THEN "quantity must be > 0"
    ELSE IF Len(b.Sig) = 0 THEN "sig is required"
    ELSE IF Len(b.Sig) > MaxSigLen THEN "sig too long"
    ELSE ""

\* mutant: only patients are turned away
MayCreate_NotPatient(role) == role # RolePatient

\* server.go 176
MayCreate(role) == role = RolePhysician

\* mutant: the physician_id of the body is not compared with the caller
CreatesAsSelf_Anyone(physicianID, callerID) == TRUE

\* server.go 195
CreatesAsSelf(physicianID, callerID) == physicianID = callerID

\* what a handler leaves behind: the response written, the repository calls
\* it made, in order, and the store after them
Reply(status, body, cs, db) == [status |-> status, body |-> body, calls |-> cs, db |-> db]
ReplyError(status, msg, cs, db) == Reply(status, [error |-> msg], cs, db)

\* server.go 217-230: the insert and its error mapping
InsertPrescription(r, b, drugID, cs, db) ==
    LET p == [PatientID |-> b.PatientID, PhysicianID |-> b.PhysicianID, DrugID |-> drugID,
              Quantity |-> b.Quantity, Sig |-> b.Sig]
        created == CreatePrescription(db, p, r.fault = "CreatePrescription")
        cs2 == Append(cs, Call("CreatePrescription", <<p>>))
    IN  IF created.err = ErrInvalidReference
        THEN ReplyError(StatusBadRequest, "invalid patient_id, physician_id, or drug_id",
                        cs2, created.db)
        ELSE IF created.err # ErrNone
        THEN ReplyError(StatusInternalServerError, "failed to create prescription",
                        cs2, created.db)
        ELSE Reply(StatusCreated, created.row[1], cs2, created.db)

\* server.go 203-215: the drug id given, or the drug found or created by name
ResolveDrug(r, b, cs, db) ==
    IF b.DrugID > 0 THEN InsertPrescription(r, b, b.DrugID, cs, db)
    ELSE IF b.DrugName = <<>>
    THEN ReplyError(StatusBadRequest, "drug_name is required when drug_id is not provided",
                    cs, db)
    ELSE LET name == TrimSpaces(b.DrugName)
         IN  IF name = <<>>
             THEN ReplyError(StatusBadRequest, "drug_name cannot be blank", cs, db)
             ELSE LET found == FindOrCreateDrug(db, name, r.fault = "FindOrCreateDrug")
                      cs2 == Append(cs, Call("FindOrCreateDrug", <<name>>))
                  IN  IF found.err # ErrNone
                      THEN ReplyError(StatusInternalServerError, "failed to resolve drug",
                                      cs2, found.db)
                      ELSE InsertPrescription(r, b, found.id, cs2, found.db)

\* mutant: the drug is resolved by name before the link is checked
handleCreatePrescription_DrugFirst(r, db) ==
    LET role == readRole(r)
        caller == readUserID(r)
        b == Decode(r.body)
    IN  IF ~role.ok THEN ReplyError(StatusUnauthorized, role.msg, <<>>, db)
        ELSE IF ~MayCreate(role.role)
        THEN ReplyError(StatusForbidden, "only physicians may create prescriptions", <<>>, db)
        ELSE IF ~caller.ok THEN ReplyError(StatusUnauthorized, caller.msg, <<>>, db)
        ELSE IF ~b.ok THEN ReplyError(StatusBadRequest, "invalid JSON body", <<>>, db)
        ELSE IF validate(b) # "" THEN ReplyError(StatusBadRequest, validate(b), <<>>, db)
        ELSE IF ~CreatesAsSelf(b.PhysicianID, caller.id)
        THEN ReplyError(StatusForbidden, "physicians may only create as themselves", <<>>, db)
        ELSE LET name == TrimSpaces(b.DrugName)
                 found == IF b.DrugID > 0 \/ name = <<>>
                          THEN [err |-> ErrNone, id |-> b.DrugID, db |-> db]
                          ELSE FindOrCreateDrug(db, name, r.fault = "FindOrCreateDrug")
                 link == IsPhysicianPatientLinked(found.db, caller.id, b.PatientID,
                                                  r.fault = "IsPhysicianPatientLinked")
                 cs == <<Call("FindOrCreateDrug", <<name>>),
                         Call("IsPhysicianPatientLinked", <<caller.id, b.PatientID>>)>>
             IN  IF ~link.linked
                 THEN ReplyError(StatusForbidden, "physician not linked to patient",
                                 cs, found.db)
                 ELSE ResolveDrug(r, b, cs, found.db)

\* server.go 173-201 and on: handlePrescriptions for a POST
handleCreatePrescription(r, db) ==
    LET role == readRole(r)
        caller == readUserID(r)
        b == Decode(r.body)
    IN  IF ~role.ok THEN ReplyError(StatusUnauthorized, role.msg, <<>>, db)
        ELSE IF ~MayCreate(role.role)
        THEN ReplyError(StatusForbidden, "only physicians may create prescriptions", <<>>, db)
        ELSE IF ~caller.ok THEN ReplyError(StatusUnauthorized, caller.msg, <<>>, db)
        ELSE IF ~b.ok THEN ReplyError(StatusBadRequest, "invalid JSON body", <<>>, db)
        ELSE IF validate(b) # "" THEN ReplyError(StatusBadRequest, validate(b), <<>>, db)
        ELSE IF ~CreatesAsSelf(b.PhysicianID, caller.id)
        THEN ReplyError(StatusForbidden, "physicians may only create as themselves", <<>>, db)
        ELSE LET link == IsPhysicianPatientLinked(db, caller.id, b.PatientID,
                                                  r.fault = "IsPhysicianPatientLinked")
                 cs == <<Call("IsPhysicianPatientLinked", <<caller.id, b.PatientID>>)>>
             IN  IF link.err # ErrNone
                 THEN ReplyError(StatusInternalServerError, "link check failed", cs, db)
                 ELSE IF ~link.linked
                 THEN ReplyError(StatusForbidden, "physician not linked to patient", cs, db)
                 ELSE ResolveDrug(r, b, cs, db)

(***************************************************************************)
(* repo.go: the read operations.                                           *)
(***************************************************************************)
Min(a, b) == IF a < b THEN a ELSE b

\* the rows of S in the strict total order Before
SortBy(S, before) ==
    LET rank == [x \in S |-> Cardinality({y \in S : <<y, x>> \in before})]
    IN  [i \in 1..Cardinality(S) |-> CHOOSE x \in S : rank[x] = i - 1]

\* LIMIT n
Take(rows, n) == SubSeq(rows, 1, Min(n, Len(rows)))

\* the characters of the names, in code point order
Alphabet == <<"\t", " ", ".", "0", "1", "2", "3", "4", "5", "6", "7", "8", "9",
              "A", "B", "D", "I", "J", "M", "P", "R", "S",
              "a", "b", "c", "e", "f", "g", "h", "i", "l", "m", "n", "o", "p", "r",
              "s", "t", "u", "x">>
CharCode(c) == CHOOSE i \in 1..Len(Alphabet) : Alphabet[i] = c

\* ORDER BY name ASC on text
TextBefore(a, b) ==
    \E k \in 1..(Min(Len(a), Len(b)) + 1) :
        /\ \A j \in 1..(k - 1) : a[j] = b[j]
        /\ \/ k > Len(a) /\ k <= Len(b)
           \/ k <= Len(a) /\ k <= Len(b) /\ CharCode(a[k]) < CharCode(b[k])

NameOf(table, id) == (CHOOSE row \in table : row.id = id).name

\* mutant: rows of one prescribed_at come by id ascending
NewestFirst_LowerIdFirst(a, b) ==
    \/ a.prescribed_at > b.prescribed_at
    \/ a.prescribed_at = b.prescribed_at /\ a.id < b.id

\* ORDER BY pr.prescribed_at DESC, pr.id DESC
NewestFirst(a, b) ==
    \/ a.prescribed_at > b.prescribed_at
    \/ a.prescribed_at = b.prescribed_at /\ a.id > b.id

\* mutant: a limit over the maximum is cut down to the maximum
ClampLimit_Saturating(limit) ==
    IF limit <= 0 THEN RepoDefaultLimit
    ELSE IF limit > RepoMaxLimit THEN RepoMaxLimit ELSE limit

\* repo.go 171-174
ClampLimit(limit) == IF limit <= 0 \/ limit > RepoMaxLimit THEN RepoDefaultLimit ELSE limit

\* repo.go 187-194: the WHERE clause built from the filter
MatchesFilter(pr, filter) ==
    /\ filter.PatientID = Nil \/ pr.patient_id = filter.PatientID[1]
    /\ filter.PhysicianID = Nil \/ pr.physician_id = filter.PhysicianID[1]

ListPrescriptions(db, filter, fault) ==
    IF fault THEN [err |-> ErrStore, items |-> <<>>]
    ELSE LET joined == {pr \in db.prescriptions :
                            /\ pr.patient_id \in Ids(db.patients)
                            /\ pr.physician_id \in Ids(db.physicians)
                            /\ pr.drug_id \in Ids(db.drugs)
                            /\ MatchesFilter(pr, filter)}
             rows == Take(SortBy(joined, {o \in joined \X joined : NewestFirst(o[1], o[2])}),
                          ClampLimit(filter.Limit))
         IN  [err |-> ErrNone,
              items |-> [i \in 1..Len(rows) |->
                  [id |-> rows[i].id,
                   patient_id |-> rows[i].patient_id,
                   patient_name |-> NameOf(db.patients, rows[i].patient_id),
                   physician_id |-> rows[i].physician_id,
                   physician_name |-> NameOf(db.physicians, rows[i].physician_id),
                   drug_id |-> rows[i].drug_id,
                   drug_name |-> NameOf(db.drugs, rows[i].drug_id),
                   quantity |-> rows[i].quantity, sig |-> rows[i].sig,
                   prescribed_at |-> rows[i].prescribed_at]]]

\* ORDER BY name ASC, id ASC
ByNameThenId(a, b) == TextBefore(a.name, b.name) \/ (a.name = b.name /\ a.id < b.id)

ListPatientsForPhysician(db, physicianID, fault) ==
    IF fault THEN [err |-> ErrStore, items |-> <<>>]
    ELSE [err |-> ErrNone,
          items |-> LET rows == {p \in db.patients :
                                     <<physicianID, p.id>> \in db.physician_patients}
                    IN  SortBy(rows, {o \in rows \X rows : ByNameThenId(o[1], o[2])})]

ListPhysiciansForPatient(db, patientID, fault) ==
    IF fault THEN [err |-> ErrStore, items |-> <<>>]
    ELSE [err |-> ErrNone,
          items |-> LET rows == {ph \in db.physicians :
                                     <<ph.id, patientID>> \in db.physician_patients}
                    IN  SortBy(rows, {o \in rows \X rows : ByNameThenId(o[1], o[2])})]

RECURSIVE SumQuantity(_)
SumQuantity(rows) ==
    IF rows = {} THEN 0
    ELSE LET row == CHOOSE x \in rows : TRUE
         IN  row.quantity + SumQuantity(rows \ {row})

\* mutant: the range is closed at its end
InTopDrugsRange_Closed(pr, from, to, patientID) ==
    /\ pr.prescribed_at >= from
    /\ pr.prescribed_at <= to
    /\ patientID = Nil \/ pr.patient_id = patientID[1]

\* repo.go 72-78: prescribed_at >= $1 AND prescribed_at < $2 [AND patient_id = $3]
InTopDrugsRange(pr, from, to, patientID) ==
    /\ pr.prescribed_at >= from
    /\ pr.prescribed_at < to
    /\ patientID = Nil \/ pr.patient_id = patientID[1]

\* mutant: ties go to the higher drug id
MostPrescribedFirst_HigherIdFirst(a, b) ==
    \/ a.total_quantity > b.total_quantity
    \/ a.total_quantity = b.total_quantity /\ a.drug_id > b.drug_id

\* ORDER BY total_qty DESC, d.id ASC
MostPrescribedFirst(a, b) ==
    \/ a.total_quantity > b.total_quantity
    \/ a.total_quantity = b.total_quantity /\ a.drug_id < b.drug_id

TopDrugs(db, from, to, limit, patientID, fault) ==
    IF fault THEN [err |-> ErrStore, items |-> <<>>]
    ELSE LET matching == {pr \in db.prescriptions :
                              /\ InTopDrugsRange(pr, from, to, patientID)
                              /\ pr.drug_id \in Ids(db.drugs)}
             groups == {[drug_id |-> d.id, drug_name |-> d.name,
                         total_quantity |->
                             SumQuantity({pr \in matching : pr.drug_id = d.id})] :
                        d \in {x \in db.drugs : \E pr \in matching : pr.drug_id = x.id}}
         IN  [err |-> ErrNone, items |-> Take(SortBy(groups, {o \in groups \X groups :
                                              MostPrescribedFirst(o[1], o[2])}), limit)]

(***************************************************************************)
(* server.go: GET /prescriptions                                           *)
(***************************************************************************)
\* url.Values.Get: the value of the parameter, "" when the parameter is absent
QueryGet(q, key) == IF q[key] = Nil THEN <<>> ELSE q[key][1]

\* mutant: a limit that is given is not used
ParseLimit_Ignored(ls, default, max) ==
    IF ls = <<>> THEN [ok |-> TRUE, limit |-> default]
    ELSE LET n == ParseInt(ls)
         IN  IF n.ok /\ n.val > 0 /\ n.val <= max
             THEN [ok |-> TRUE, limit |-> default]
             ELSE [ok |-> FALSE, limit |-> default]

\* mutant: a limit out of range falls back to the default
ParseLimit_Clamped(ls, default, max) ==
    IF ls = <<>> THEN [ok |-> TRUE, limit |-> default]
    ELSE LET n == ParseInt(ls)
         IN  IF n.ok /\ n.val > 0 /\ n.val <= max
             THEN [ok |-> TRUE, limit |-> n.val]
             ELSE [ok |-> n.ok, limit |-> default]

\* server.go 237-242 and 377-385: the limit parameter, between 1 and max
ParseLimit(ls, default, max) ==
    IF ls = <<>> THEN [ok |-> TRUE, limit |-> default]
    ELSE LET n == ParseInt(ls)
         IN  IF n.ok /\ n.val > 0 /\ n.val <= max
             THEN [ok |-> TRUE, limit |-> n.val]
             ELSE [ok |-> FALSE, limit |-> default]

\* server.go 254-259: an id parameter of the admin's query
ParseIdParam(v) ==
    IF v = <<>> THEN [ok |-> TRUE, ptr |-> Nil]
    ELSE LET n == ParseInt(v)
         IN  IF n.ok /\ n.val > 0 THEN [ok |-> TRUE, ptr |-> Ptr(n.val)]
             ELSE [ok |-> FALSE, ptr |-> Nil]

\* mutant: an id given in the query replaces the caller's own
ListFilterFor_QueryWins(role, callerID, patientParam, physicianParam, limit) ==
    IF role = RolePatient
    THEN [PatientID |-> IF patientParam # Nil THEN patientParam ELSE Ptr(callerID),
          PhysicianID |-> Nil, Limit |-> limit]
    ELSE IF role = RolePhysician
    THEN [PatientID |-> Nil,
          PhysicianID |-> IF physicianParam # Nil THEN physicianParam ELSE Ptr(callerID),
          Limit |-> limit]
    ELSE [PatientID |-> patientParam, PhysicianID |-> physicianParam, Limit |-> limit]

\* server.go 243-260: the filter of the role, from the caller id or the query
ListFilterFor(role, callerID, patientParam, physicianParam, limit) ==
    IF role = RolePatient
    THEN [PatientID |-> Ptr(callerID), PhysicianID |-> Nil, Limit |-> limit]
    ELSE IF role = RolePhysician
    THEN [PatientID |-> Nil, PhysicianID |-> Ptr(callerID), Limit |-> limit]
    ELSE [PatientID |-> patientParam, PhysicianID |-> physicianParam, Limit |-> limit]

handleListPrescriptions(r, db) ==
    LET role == readRole(r)
        lim == ParseLimit(QueryGet(r.query, "limit"), DefaultListLimit, MaxListLimit)
        caller == readUserID(r)
        pat == ParseIdParam(QueryGet(r.query, "patient_id"))
        phy == ParseIdParam(QueryGet(r.query, "physician_id"))
    IN  IF ~role.ok THEN ReplyError(StatusUnauthorized, role.msg, <<>>, db)
        ELSE IF ~lim.ok THEN ReplyError(StatusBadRequest, "limit must be 1..200", <<>>, db)
        ELSE IF role.role \in {RolePatient, RolePhysician} /\ ~caller.ok
        THEN ReplyError(StatusUnauthorized, caller.msg, <<>>, db)
        ELSE IF role.role = RoleAdmin /\ ~pat.ok
        THEN ReplyError(StatusBadRequest, "invalid patient_id", <<>>, db)
        ELSE IF role.role = RoleAdmin /\ ~phy.ok
        THEN ReplyError(StatusBadRequest, "invalid physician_id", <<>>, db)
        ELSE LET filter == ListFilterFor(role.role, caller.id, pat.ptr, phy.ptr, lim.limit)
                 listed == ListPrescriptions(db, filter, r.fault = "ListPrescriptions")
                 cs == <<Call("ListPrescriptions", <<filter>>)>>
             IN  IF listed.err # ErrNone
                 THEN ReplyError(StatusInternalServerError, "failed to list prescriptions",
                                 cs, db)
                 ELSE Reply(StatusOK, [items |-> listed.items, limit |-> lim.limit], cs, db)

\* server.go 163-172: the method dispatch of handlePrescriptions
handlePrescriptions(r, db) ==
    IF r.method = "GET" THEN handleListPrescriptions(r, db)
    ELSE IF r.method # "POST"
    THEN ReplyError(StatusMethodNotAllowed, "method not allowed", <<>>, db)
    ELSE handleCreatePrescription(r, db)

(***************************************************************************)
(* server.go: /physicians/{id}/patients and /patients/{id}/physicians      *)
(***************************************************************************)
PatientsTail == <<"/", "p", "a", "t", "i", "e", "n", "t", "s">>
PhysiciansTail == <<"/", "p", "h", "y", "s", "i", "c", "i", "a", "n", "s">>

\* server.go 278-279: the index of the first '/' of rest, 0 when there is none
FirstSlash(rest) ==
    IF \E i \in 1..Len(rest) : rest[i] = "/"
    THEN CHOOSE i \in 1..Len(rest) : rest[i] = "/" /\ \A j \in 1..(i - 1) : rest[j] # "/"
    ELSE 0

\* mutant: the id of the path is not compared with the caller
IsOwnResource_Anyone(callerID, id) == TRUE

\* server.go 304 and 346
IsOwnResource(callerID, id) == callerID = id

\* r.rest is the path after the prefix "/physicians/"
handlePhysicianSubroutes(r, db) ==
    LET slash == FirstSlash(r.rest)
        idStr == SubSeq(r.rest, 1, slash - 1)
        tail == SubSeq(r.rest, slash, Len(r.rest))
        role == readRole(r)
        id == ParseInt(idStr)
        caller == readUserID(r)
    IN  IF slash = 0 THEN ReplyError(StatusNotFound, "not found", <<>>, db)
        ELSE IF tail # PatientsTail THEN ReplyError(StatusNotFound, "not found", <<>>, db)
        ELSE IF ~role.ok THEN ReplyError(StatusUnauthorized, role.msg, <<>>, db)
        ELSE IF ~id.ok \/ id.val <= 0
        THEN ReplyError(StatusBadRequest, "invalid physician id in path", <<>>, db)
        ELSE IF role.role = RolePatient
        THEN ReplyError(StatusForbidden, "patients cannot access this resource", <<>>, db)
        ELSE IF role.role = RolePhysician /\ ~caller.ok
        THEN ReplyError(StatusUnauthorized, caller.msg, <<>>, db)
        ELSE IF role.role = RolePhysician /\ ~IsOwnResource(caller.id, id.val)
        THEN ReplyError(StatusForbidden, "physicians may only view their own patients",
                        <<>>, db)
        ELSE LET listed == ListPatientsForPhysician(db, id.val,
                                                    r.fault = "ListPatientsForPhysician")
                 cs == <<Call("ListPatientsForPhysician", <<id.val>>)>>
             IN  IF listed.err # ErrNone
                 THEN ReplyError(StatusInternalServerError, "failed to list patients", cs, db)
                 ELSE Reply(StatusOK, [items |-> listed.items], cs, db)

\* r.rest is the path after the prefix "/patients/"
handlePatientSubroutes(r, db) ==
    LET slash == FirstSlash(r.rest)
        idStr == SubSeq(r.rest, 1, slash - 1)
        tail == SubSeq(r.rest, slash, Len(r.rest))
        role == readRole(r)
        id == ParseInt(idStr)
        caller == readUserID(r)
    IN  IF slash = 0 THEN ReplyError(StatusNotFound, "not found", <<>>, db)
        ELSE IF tail # PhysiciansTail THEN ReplyError(StatusNotFound, "not found", <<>>, db)
        ELSE IF ~role.ok THEN ReplyError(StatusUnauthorized, role.msg, <<>>, db)
        ELSE IF ~id.ok \/ id.val <= 0
        THEN ReplyError(StatusBadRequest, "invalid patient id in path", <<>>, db)
        ELSE IF role.role = RolePhysician
        THEN ReplyError(StatusForbidden, "physicians cannot access this resource", <<>>, db)
        ELSE IF role.role = RolePatient /\ ~caller.ok
        THEN ReplyError(StatusUnauthorized, caller.msg, <<>>, db)
        ELSE IF role.role = RolePatient /\ ~IsOwnResource(caller.id, id.val)
        THEN ReplyError(StatusForbidden, "patients may only view their own physicians",
                        <<>>, db)
        ELSE LET listed == ListPhysiciansForPatient(db, id.val,
                                                    r.fault = "ListPhysiciansForPatient")
                 cs == <<Call("ListPhysiciansForPatient", <<id.val>>)>>
             IN  IF listed.err # ErrNone
                 THEN ReplyError(StatusInternalServerError, "failed to list physicians",
                                 cs, db)
                 ELSE Reply(StatusOK, [items |-> listed.items], cs, db)

(***************************************************************************)
(* server.go: GET /analytics/top-drugs                                     *)
(***************************************************************************)
\* The text of a from/to parameter is "" (<<>>) or one item: an RFC 3339 date
\* and time, given by its wall clock reading and its zone offset (both in
\* days), or some other text. time.Parse yields the instant wall - off.
timeParse(text) ==
    IF text # <<>> /\ text[1].rfc3339
    THEN [ok |-> TRUE, t |-> text[1].wall - text[1].off]
    ELSE [ok |-> FALSE, t |-> 0]

\* mutant: a range of no length passes
After_OrEqual(to, from) == to >= from

\* server.go 373: to.After(from)
After(to, from) == to > from

\* mutant: the patient branch is missing
TopDrugsScope_None(role, callerID) == Nil

\* server.go 387-392: the patient scope of the caller
TopDrugsScope(role, callerID) == IF role = RolePatient THEN Ptr(callerID) ELSE Nil

handleTopDrugs(r, db) ==
    LET role == readRole(r)
        fromS == QueryGet(r.query, "from")
        toS == QueryGet(r.query, "to")
        from == timeParse(fromS)
        to == timeParse(toS)
        lim == ParseLimit(QueryGet(r.query, "limit"), DefaultTopLimit, MaxTopLimit)
        caller == readUserID(r)
    IN  IF r.method # "GET"
        THEN ReplyError(StatusMethodNotAllowed, "method not allowed", <<>>, db)
        ELSE IF ~role.ok THEN ReplyError(StatusUnauthorized, role.msg, <<>>, db)
        ELSE IF fromS = <<>> \/ toS = <<>>
        THEN ReplyError(StatusBadRequest,
                 "from and to query params are required (RFC3339 date or datetime)", <<>>, db)
        ELSE IF ~from.ok \/ ~to.ok \/ ~After(to.t, from.t)
        THEN ReplyError(StatusBadRequest, "invalid from/to range", <<>>, db)
        ELSE IF ~lim.ok THEN ReplyError(StatusBadRequest, "limit must be 1..100", <<>>, db)
        ELSE IF role.role = RolePatient /\ ~caller.ok
        THEN ReplyError(StatusUnauthorized, caller.msg, <<>>, db)
        ELSE LET patientID == TopDrugsScope(role.role, caller.id)
                 top == TopDrugs(db, from.t, to.t, lim.limit, patientID,
                                 r.fault = "TopDrugs")
                 cs == <<Call("TopDrugs", <<from.t, to.t, lim.limit, patientID>>)>>
             IN  IF top.err # ErrNone
                 THEN ReplyError(StatusInternalServerError, "failed to fetch analytics",
                                 cs, db)
                 ELSE Reply(StatusOK, [from |-> from.t, to |-> to.t, limit |-> lim.limit,
                                       items |-> top.items], cs, db)

(***************************************************************************)
(* server.go 39-68: /readyz and /healthz                                   *)
(***************************************************************************)
\* /readyz: pings the pool of the PGRepo; the fault "Ping" is the ping failing
handleReadyz(r, db) ==
    IF r.method # "GET"
    THEN ReplyError(StatusMethodNotAllowed, "method not allowed", <<>>, db)
    ELSE IF r.fault = "Ping"
    THEN Reply(StatusServiceUnavailable, [status |-> "ok", db |-> "down"], <<>>, db)
    ELSE Reply(StatusOK, [status |-> "ok", db |-> "ok"], <<>>, db)

handleHealthz(r, db) ==
    IF r.method # "GET"
    THEN ReplyError(StatusMethodNotAllowed, "method not allowed", <<>>, db)
    ELSE Reply(StatusOK, [status |-> "ok"], <<>>, db)

(***************************************************************************)
(* server.go 71-105 and 33-69: ServeHTTP and the routes of the mux.        *)
(* r.route is the pattern of the mux that matches the request path, "" if  *)
(* none does: the mux then answers 404.                                    *)
(***************************************************************************)
ServeHTTP(r, db) ==
    IF r.method = "OPTIONS" THEN Reply(StatusNoContent, [error |-> ""], <<>>, db)
    ELSE CASE r.route = "/prescriptions" -> handlePrescriptions(r, db)
           [] r.route = "/analytics/top-drugs" -> handleTopDrugs(r, db)
           [] r.route = "/physicians/" -> handlePhysicianSubroutes(r, db)
           [] r.route = "/patients/" -> handlePatientSubroutes(r, db)
           [] r.route = "/readyz" -> handleReadyz(r, db)
           [] r.route = "/healthz" -> handleHealthz(r, db)
           [] OTHER -> ReplyError(StatusNotFound, "404 page not found", <<>>, db)

(***************************************************************************)
(* The requests explored.                                                  *)
(***************************************************************************)
Str1 == <<"1">>
Str2 == <<"2">>
Aspirin == <<"A", "s", "p", "i", "r", "i", "n">>
PaddedIbuprofen == <<" ">> \o Ibuprofen \o <<"\t">>
Blank == <<" ", "\t">>

Roles == {RoleAdmin, RolePhysician, RolePatient, "", "Admin"}
UserIDs == {<<>>, Str1, Str2, <<"0">>, <<"-", "1">>, <<"x">>}

NoBody == [json_ok |-> FALSE, patient_id |-> 0, physician_id |-> 0, drug_id |-> 0,
           drug_name |-> <<>>, quantity |-> 0, sig |-> <<>>, prescribed_at |-> Nil]
NoQuery == [limit |-> Nil]

\* a body that does not decode, and the JSON objects over these members
Bodies ==
    {NoBody} \cup
    [json_ok : {TRUE}, patient_id : {1, 2}, physician_id : {1, 2},
     drug_id : {0, 1, 9},
     drug_name : {<<>>, PaddedIbuprofen, Blank, Aspirin},
     quantity : {0, 30}, sig : {<<>>, SigBID},
     prescribed_at : {Nil, Ptr(0)}]

CreateRequests ==
    [method : {"POST"}, route : {"/prescriptions"}, role : Roles, user_id : UserIDs,
     query : {NoQuery}, body : Bodies,
     fault : {"none", "IsPhysicianPatientLinked", "FindOrCreateDrug", "CreatePrescription"}]

\* the other methods on /prescriptions
OtherMethodRequests ==
    [method : {"DELETE", "OPTIONS"}, route : {"/prescriptions"}, role : Roles,
     user_id : {Str1}, query : {NoQuery},
     body : {NoBody, [json_ok |-> TRUE, patient_id |-> 1, physician_id |-> 1, drug_id |-> 1,
                      drug_name |-> <<>>, quantity |-> 30, sig |-> SigBID,
                      prescribed_at |-> Nil]},
     fault : {"none"}]

\* a few POST requests that let the store grow under the read routes, and a
\* few that name a patient or a physician that does not exist
SampleBody(patientID, physicianID, drugID, drugName) ==
    [json_ok |-> TRUE, patient_id |-> patientID, physician_id |-> physicianID,
     drug_id |-> drugID, drug_name |-> drugName, quantity |-> 30, sig |-> SigBID,
     prescribed_at |-> Nil]
SampleCreateRequests ==
    [method : {"POST"}, route : {"/prescriptions"}, role : {RolePhysician, RolePatient, ""},
     user_id : {Str1, Str2, <<>>, <<"0">>}, query : {NoQuery},
     body : {SampleBody(1, 1, 1, <<>>), SampleBody(2, 2, 0, Aspirin),
             SampleBody(2, 1, 9, <<>>), SampleBody(1, 2, 0, Aspirin)},
     fault : {"none", "CreatePrescription"}]
UnknownPartyRequests ==
    [method : {"POST"}, route : {"/prescriptions"}, role : {RolePhysician},
     user_id : {Str1, <<"9">>}, query : {NoQuery},
     body : {SampleBody(9, 1, 1, <<>>), SampleBody(1, 9, 1, <<>>)},
     fault : {"none"}]

\* drug names made of a line feed, alone or after a space, or ending in one
LineFeed == <<"\n">>
SpaceLineFeed == <<" ", "\n">>
LineFeedNameRequests ==
    [method : {"POST"}, route : {"/prescriptions"}, role : {RolePhysician},
     user_id : {Str1}, query : {NoQuery},
     body : {SampleBody(1, 1, 0, LineFeed), SampleBody(1, 1, 0, SpaceLineFeed),
             SampleBody(1, 1, 0, Ibuprofen \o LineFeed)},
     fault : {"none"}]

\* /healthz, /readyz and a path no pattern matches
OtherRouteRequests ==
    [method : {"GET", "POST", "OPTIONS"}, route : {"/healthz", "/readyz", ""},
     role : {RoleAdmin, ""}, user_id : {Str1}, query : {NoQuery}, body : {NoBody},
     fault : {"none", "Ping"}]

\* a parameter is absent (Nil) or present with a text, which may be empty
ListLimits == {Nil, Ptr(<<>>), Ptr(<<"0">>), Ptr(<<"-", "1">>), Ptr(Str2),
               Ptr(<<"2", "0", "1">>), Ptr(<<"a", "b", "c">>)}
ListRequests ==
    [method : {"GET"}, route : {"/prescriptions"}, role : Roles, user_id : UserIDs,
     query : [limit : ListLimits,
              patient_id : {Nil, Ptr(Str2), Ptr(<<"x">>)},
              physician_id : {Nil, Ptr(Str1), Ptr(<<"0">>)}],
     body : {NoBody}, fault : {"none", "ListPrescriptions"}]

PhysicianPaths ==
    {Str1 \o PatientsTail, Str2 \o PatientsTail, <<"0">> \o PatientsTail,
     <<"-", "1">> \o PatientsTail, <<"x">> \o PatientsTail, <<"+", "2">> \o PatientsTail,
     Str1, Str1 \o PhysiciansTail, Str1 \o PatientsTail \o <<"/">>}
PhysicianSubrouteRequests ==
    [method : {"GET", "POST"}, route : {"/physicians/"}, rest : PhysicianPaths,
     role : Roles, user_id : UserIDs, fault : {"none", "ListPatientsForPhysician"}]

PatientPaths ==
    {Str1 \o PhysiciansTail, Str2 \o PhysiciansTail, <<"0">> \o PhysiciansTail,
     <<"-", "1">> \o PhysiciansTail, <<"x">> \o PhysiciansTail, <<"+", "2">> \o PhysiciansTail,
     Str2, Str1 \o PatientsTail, Str1 \o PhysiciansTail \o <<"/">>}
PatientSubrouteRequests ==
    [method : {"GET", "POST"}, route : {"/patients/"}, rest : PatientPaths,
     role : Roles, user_id : UserIDs, fault : {"none", "ListPhysiciansForPatient"}]

Rfc3339(wall, off) == <<[rfc3339 |-> TRUE, wall |-> wall, off |-> off]>>
NotATime == <<[rfc3339 |-> FALSE, wall |-> 0, off |-> 0]>>
TimeParams ==
    {Nil, Ptr(NotATime), Ptr(Rfc3339(1, 0)), Ptr(Rfc3339(3, 0)), Ptr(Rfc3339(4, 1))}
TopLimits == {Nil, Ptr(<<>>), Ptr(<<"0">>), Ptr(<<"-", "1">>), Ptr(Str1),
              Ptr(<<"1", "0", "0">>), Ptr(<<"1", "0", "1">>), Ptr(<<"1", "x">>)}
TopDrugsRequests ==
    [method : {"GET"}, route : {"/analytics/top-drugs"}, role : Roles, user_id : UserIDs,
     query : [from : TimeParams, to : TimeParams, limit : TopLimits],
     fault : {"none", "TopDrugs"}]
    \cup
    [method : {"POST", "OPTIONS"}, route : {"/analytics/top-drugs"}, role : Roles,
     user_id : {Str1},
     query : [from : {Ptr(Rfc3339(1, 0))}, to : {Ptr(Rfc3339(4, 0))}, limit : {Nil}],
     fault : {"none"}]

(***************************************************************************)
(* The state machine.                                                      *)
(***************************************************************************)
NoRequest == [method |-> "", route |-> ""]
NoResponse == [status |-> 0]

\* no repository operation has been applied on its own
NoResult == [op |-> "", args |-> <<>>, items |-> <<>>]

\* a goroutine that is not inside a repository call
IdleTask == [pc |-> "idle", name |-> <<>>, seq |-> 0, id |-> 0]

Init ==
    /\ patients = SeedPatients
    /\ physicians = SeedPhysicians
    /\ drugs = SeedDrugs
    /\ physician_patients = SeedLinks
    /\ prescriptions = SeedPrescriptions
    /\ drugs_id_seq = Cardinality(SeedDrugs) + 1
    /\ prescriptions_id_seq = Cardinality(SeedPrescriptions) + 1
    /\ now = SeedNow
    /\ pc = "idle"
    /\ req = NoRequest
    /\ resp = NoResponse
    /\ calls = <<>>
    /\ audit = {}
    /\ inflight = [t \in 1..MaxTasks |-> IdleTask]
    /\ returned = {}
    /\ result = NoResult

\* ServeHTTP ran for request r: what it wrote, called and left in the store.
\* audit records, for every row inserted, the X-User-ID of the request and
\* whether the physician-patient link existed when the request arrived.
Serve(r) ==
    \E out \in {ServeHTTP(r, DB)} :
        /\ pc' = "served"
        /\ req' = r
        /\ resp' = [status |-> out.status, body |-> out.body]
        /\ calls' = out.calls
        /\ drugs' = out.db.drugs
        /\ drugs_id_seq' = out.db.drugs_id_seq
        /\ prescriptions' = out.db.prescriptions
        /\ prescriptions_id_seq' = out.db.prescriptions_id_seq
        /\ audit' = audit \cup
              {[id |-> row.id, user_id |-> r.user_id,
                linked |-> <<row.physician_id, row.patient_id>> \in physician_patients] :
               row \in out.db.prescriptions \ prescriptions}
        /\ UNCHANGED <<patients, physicians, physician_patients, now, inflight, returned, result>>

\* a request on /prescriptions with a method other than GET
PostPrescriptions ==
    /\ pc = "idle"
    /\ Cardinality(prescriptions) < Cardinality(SeedPrescriptions) + MaxCreated
    /\ \E r \in CreateRequests \cup OtherMethodRequests \cup UnknownPartyRequests
                 \cup LineFeedNameRequests : Serve(r)

PostSample ==
    /\ pc = "idle"
    /\ Cardinality(prescriptions) < Cardinality(SeedPrescriptions) + MaxCreated
    /\ \E r \in SampleCreateRequests : Serve(r)

GetPrescriptions ==
    /\ pc = "idle"
    /\ \E r \in ListRequests : Serve(r)

PhysicianSubroutes ==
    /\ pc = "idle"
    /\ \E r \in PhysicianSubrouteRequests : Serve(r)

PatientSubroutes ==
    /\ pc = "idle"
    /\ \E r \in PatientSubrouteRequests : Serve(r)

GetTopDrugs ==
    /\ pc = "idle"
    /\ \E r \in TopDrugsRequests : Serve(r)

OtherRoutes ==
    /\ pc = "idle"
    /\ \E r \in OtherRouteRequests : Serve(r)

\* the response is written and ServeHTTP returns
Complete ==
    /\ pc = "served"
    /\ pc' = "idle"
    /\ req' = NoRequest
    /\ resp' = NoResponse
    /\ calls' = <<>>
    /\ UNCHANGED <<patients, physicians, drugs, physician_patients, prescriptions,
                   drugs_id_seq, prescriptions_id_seq, now, audit, inflight, returned, result>>

\* time passes in the store
Tick ==
    /\ pc = "idle"
    /\ now < SeedNow + MaxTicks
    /\ now' = now + 1
    /\ UNCHANGED <<patients, physicians, drugs, physician_patients, prescriptions,
                   drugs_id_seq, prescriptions_id_seq, pc, req, resp, calls, audit,
                   inflight, returned, result>>

\* every read route over all its requests, while sample POSTs grow the store
Next ==
    \/ PostSample
    \/ GetPrescriptions
    \/ PhysicianSubroutes
    \/ PatientSubroutes
    \/ GetTopDrugs
    \/ OtherRoutes
    \/ Complete
    \/ Tick

Spec == Init /\ [][Next]_vars

\* POST /prescriptions over all its requests
NextCreate == PostPrescriptions \/ Complete \/ Tick

SpecCreate == Init /\ [][NextCreate]_vars

(***************************************************************************)
(* Properties of POST /prescriptions (SpecCreate).                         *)
(***************************************************************************)
IsPost(r) == r.route = "/prescriptions" /\ r.method = "POST"

HasValidRole(r) == r.role \in {RoleAdmin, RolePhysician, RolePatient}

\* the body decodes and passes validate
HasValidBody(r) == Decode(r.body).ok /\ validate(Decode(r.body)) = ""

\* a physician creating as themselves for a patient they are linked to
LinkedSelfCreate(r) ==
    /\ HasValidBody(r)
    /\ r.role = RolePhysician
    /\ readUserID(r).ok
    /\ readUserID(r).id = r.body.physician_id
    /\ <<r.body.physician_id, r.body.patient_id>> \in physician_patients

\* the drug of the body can be resolved against the drugs table
DrugResolves(r, drugTable) ==
    IF r.body.drug_id > 0 THEN r.body.drug_id \in Ids(drugTable)
    ELSE TrimSpaces(r.body.drug_name) # <<>>

\* a statement that the request executes fails in the store
StoreFails(r) ==
    /\ r.fault # "none"
    /\ ~(r.fault = "FindOrCreateDrug" /\ r.body.drug_id > 0)

\* C1 as stated: every valid create by a linked physician acting as themselves
\* is answered 201 with a stored row (even granting that the store does not fail).
C1_Original ==
    (pc = "served" /\ IsPost(req) /\ LinkedSelfCreate(req) /\ req.fault = "none")
        => (resp.status = StatusCreated /\ resp.body \in prescriptions)

\* C1 amended: a valid create by a linked physician acting as themselves, whose
\* drug resolves (an existing drug_id, or a drug_name that is not blank after
\* trimming) and during which no store statement fails, is answered 201; exactly
\* one row is added, it is the row returned, its id is the id of no row that
\* existed before, and its prescribed_at is the store's clock whatever
\* prescribed_at the body carries.
C1_CreateSucceeds ==
    [][(pc' = "served" /\ IsPost(req') /\ LinkedSelfCreate(req')
            /\ DrugResolves(req', drugs) /\ ~StoreFails(req'))
        => /\ resp'.status = StatusCreated
           /\ resp'.body.id \notin Ids(prescriptions)
           /\ prescriptions' = prescriptions \cup {resp'.body}
           /\ resp'.body.prescribed_at = now
           /\ resp'.body.patient_id = req'.body.patient_id
           /\ resp'.body.physician_id = req'.body.physician_id]_vars

\* a linked physician created, by a new drug name, a prescription whose body
\* carried a prescribed_at of its own
C1_Witness ==
    /\ pc = "served" /\ IsPost(req) /\ LinkedSelfCreate(req)
    /\ req.body.drug_id = 0 /\ req.body.drug_name = Aspirin
    /\ req.body.prescribed_at = Ptr(0)
    /\ resp.status = StatusCreated
    /\ resp.body.prescribed_at # 0

\* C2: every prescription created through POST /prescriptions has the
\* physician_id that the X-User-ID of its request names, and the link
\* (physician_id, patient_id) existed when the request was authorized.
C2_CreatedBySelfForLinked ==
    \A p \in prescriptions \ SeedPrescriptions :
        \E a \in audit :
            /\ a.id = p.id
            /\ ParseInt(a.user_id).ok
            /\ ParseInt(a.user_id).val = p.physician_id
            /\ a.linked

\* physician 2 has created a prescription
C2_Witness ==
    \E p \in prescriptions \ SeedPrescriptions :
        p.physician_id = 2 /\ \E a \in audit : a.id = p.id /\ a.user_id = Str2

\* C3 as stated: a create whose physician_id differs from the caller id is
\* answered 403 (taking the request to carry a valid role and caller id and a
\* body that decodes).
C3_Original ==
    (pc = "served" /\ IsPost(req) /\ HasValidRole(req) /\ readUserID(req).ok
        /\ Decode(req.body).ok /\ req.body.physician_id # readUserID(req).id)
        => resp.status = StatusForbidden

\* C3 amended: a create that carries a valid X-Role and X-User-ID and a body that
\* decodes and passes validation, and whose physician_id differs from the caller
\* id, is answered 403 whether or not a link between that physician and the
\* patient exists.
C3_NotSelfForbidden ==
    (pc = "served" /\ IsPost(req) /\ HasValidRole(req) /\ readUserID(req).ok
        /\ HasValidBody(req) /\ req.body.physician_id # readUserID(req).id)
        => resp.status = StatusForbidden

\* physician 2 asked to create as physician 1, who is linked to the patient
C3_Witness ==
    /\ pc = "served" /\ IsPost(req) /\ req.role = RolePhysician
    /\ HasValidBody(req) /\ readUserID(req).ok /\ readUserID(req).id = 2
    /\ req.body.physician_id = 1
    /\ <<1, req.body.patient_id>> \in physician_patients
    /\ <<2, req.body.patient_id>> \in physician_patients
    /\ resp.status = StatusForbidden

\* C4: a POST /prescriptions with X-Role patient or admin is answered 403
\* whatever its body and X-User-ID and the store are; no repository operation
\* is invoked and the store is left as it was.
C4_OnlyPhysiciansCreate ==
    [][(pc' = "served" /\ IsPost(req') /\ req'.role \in {RolePatient, RoleAdmin})
        => (resp'.status = StatusForbidden /\ calls' = <<>> /\ UNCHANGED store)]_vars

\* an admin sent a create that a physician could have sent
C4_Witness ==
    /\ pc = "served" /\ IsPost(req) /\ req.role = RoleAdmin
    /\ HasValidBody(req) /\ readUserID(req).ok
    /\ readUserID(req).id = req.body.physician_id
    /\ <<req.body.physician_id, req.body.patient_id>> \in physician_patients
    /\ DrugResolves(req, drugs)
    /\ req.fault = "none"
    /\ resp.status = StatusForbidden

(***************************************************************************)
(* Properties of the read routes (Spec).                                   *)
(***************************************************************************)
IsList(r) == r.route = "/prescriptions" /\ r.method = "GET"
IsTopDrugs(r) == r.route = "/analytics/top-drugs" /\ r.method = "GET"

\* the caller id that the X-User-ID header names
IsCaller(r, id) == ParseInt(r.user_id).ok /\ ParseInt(r.user_id).val = id /\ id > 0

\* an id parameter of the query as a filter field
QueryId(param) ==
    IF param = Nil \/ param[1] = <<>> THEN Nil ELSE Ptr(ParseInt(param[1]).val)

\* C5: on GET /prescriptions the filter of a physician is physician_id =
\* X-User-ID and that of a patient is patient_id = X-User-ID, whatever ids the
\* query names; only an admin's patient_id / physician_id parameters become
\* the filter; every item returned to a physician or patient is their own.
C5_ListScopedToCaller ==
    (pc = "served" /\ IsList(req)) =>
        /\ \A i \in 1..Len(calls) :
            /\ calls[i].op = "ListPrescriptions"
            /\ LET f == calls[i].args[1]
               IN  /\ req.role = RolePhysician =>
                        /\ f.PatientID = Nil
                        /\ f.PhysicianID # Nil /\ IsCaller(req, f.PhysicianID[1])
                   /\ req.role = RolePatient =>
                        /\ f.PhysicianID = Nil
                        /\ f.PatientID # Nil /\ IsCaller(req, f.PatientID[1])
                   /\ req.role = RoleAdmin =>
                        /\ f.PatientID = QueryId(req.query.patient_id)
                        /\ f.PhysicianID = QueryId(req.query.physician_id)
        /\ (resp.status = StatusOK /\ req.role = RolePhysician) =>
               \A i \in 1..Len(resp.body.items) :
                   IsCaller(req, resp.body.items[i].physician_id)
        /\ (resp.status = StatusOK /\ req.role = RolePatient) =>
               \A i \in 1..Len(resp.body.items) :
                   IsCaller(req, resp.body.items[i].patient_id)

\* physician 2 listed with a query that names physician 1 and got their own rows
C5_Witness ==
    /\ pc = "served" /\ IsList(req) /\ req.role = RolePhysician /\ req.user_id = Str2
    /\ req.query.physician_id = Ptr(Str1)
    /\ resp.status = StatusOK
    /\ Len(resp.body.items) > 0
    /\ \E pr \in prescriptions : pr.physician_id = 1

\* the id X of a request on /physicians/{X}/patients or /patients/{X}/physicians
PathId(r) == ParseInt(SubSeq(r.rest, 1, FirstSlash(r.rest) - 1))
OnSubroute(r, route, tail) ==
    /\ r.route = route
    /\ FirstSlash(r.rest) > 0
    /\ SubSeq(r.rest, FirstSlash(r.rest), Len(r.rest)) = tail
    /\ PathId(r).ok /\ PathId(r).val > 0

\* the request is served: the operation is called once, with id x, and its
\* result is the answer (200 with the items, 500 when the statement fails)
ServedBy(op, x) ==
    /\ calls = <<Call(op, <<x>>)>>
    /\ IF req.fault = op THEN resp.status = StatusInternalServerError
       ELSE resp.status = StatusOK
Refused == resp.status = StatusForbidden /\ calls = <<>>

\* C6 as stated: on /physicians/{X}/patients an admin is served, a physician is
\* served if X equals X-User-ID and gets 403 otherwise, a patient gets 403.
C6_Original ==
    (pc = "served" /\ OnSubroute(req, "/physicians/", PatientsTail)) =>
        LET x == PathId(req).val
        IN  /\ req.role = RoleAdmin => ServedBy("ListPatientsForPhysician", x)
            /\ req.role = RolePhysician =>
                   IF IsCaller(req, x) THEN ServedBy("ListPatientsForPhysician", x)
                   ELSE Refused
            /\ req.role = RolePatient => Refused

\* C6 amended: on /physicians/{X}/patients with a valid positive X an admin is
\* served for any X; a physician whose X-User-ID is a valid positive id is served
\* only if X equals it and gets 403 otherwise, and a physician whose X-User-ID is
\* missing or invalid gets 401; a patient always gets 403.
\* ListPatientsForPhysician is invoked only in the served cases, always with X.
C6_PhysicianPatientsAccess ==
    (pc = "served" /\ OnSubroute(req, "/physicians/", PatientsTail)) =>
        LET x == PathId(req).val
        IN  /\ req.role = RoleAdmin => ServedBy("ListPatientsForPhysician", x)
            /\ (req.role = RolePhysician /\ readUserID(req).ok) =>
                   IF IsCaller(req, x) THEN ServedBy("ListPatientsForPhysician", x)
                   ELSE Refused
            /\ (req.role = RolePhysician /\ ~readUserID(req).ok) =>
                   (resp.status = StatusUnauthorized /\ calls = <<>>)
            /\ req.role = RolePatient => Refused
            /\ calls # <<>> =>
                   /\ calls = <<Call("ListPatientsForPhysician", <<x>>)>>
                   /\ req.role = RoleAdmin \/ (req.role = RolePhysician /\ IsCaller(req, x))

\* physician 1 got their two patients
C6_Witness ==
    /\ pc = "served" /\ OnSubroute(req, "/physicians/", PatientsTail)
    /\ req.role = RolePhysician /\ IsCaller(req, 1) /\ PathId(req).val = 1
    /\ resp.status = StatusOK
    /\ Len(resp.body.items) = 2

\* C7 as stated: on /patients/{X}/physicians an admin is served, a patient is
\* served if X equals X-User-ID and gets 403 otherwise, a physician gets 403.
C7_Original ==
    (pc = "served" /\ OnSubroute(req, "/patients/", PhysiciansTail)) =>
        LET x == PathId(req).val
        IN  /\ req.role = RoleAdmin => ServedBy("ListPhysiciansForPatient", x)
            /\ req.role = RolePatient =>
                   IF IsCaller(req, x) THEN ServedBy("ListPhysiciansForPatient", x)
                   ELSE Refused
            /\ req.role = RolePhysician => Refused

\* C7 amended: on /patients/{X}/physicians with a valid positive X an admin is
\* served for any X; a patient whose X-User-ID is a valid positive id is served
\* only if X equals it and gets 403 otherwise, and a patient whose X-User-ID is
\* missing or invalid gets 401; a physician always gets 403.
\* ListPhysiciansForPatient is invoked only in the served cases, always with X.
C7_PatientPhysiciansAccess ==
    (pc = "served" /\ OnSubroute(req, "/patients/", PhysiciansTail)) =>
        LET x == PathId(req).val
        IN  /\ req.role = RoleAdmin => ServedBy("ListPhysiciansForPatient", x)
            /\ (req.role = RolePatient /\ readUserID(req).ok) =>
                   IF IsCaller(req, x) THEN ServedBy("ListPhysiciansForPatient", x)
                   ELSE Refused
            /\ (req.role = RolePatient /\ ~readUserID(req).ok) =>
                   (resp.status = StatusUnauthorized /\ calls = <<>>)
            /\ req.role = RolePhysician => Refused
            /\ calls # <<>> =>
                   /\ calls = <<Call("ListPhysiciansForPatient", <<x>>)>>
                   /\ req.role = RoleAdmin \/ (req.role = RolePatient /\ IsCaller(req, x))

\* patient 2 got their two physicians
C7_Witness ==
    /\ pc = "served" /\ OnSubroute(req, "/patients/", PhysiciansTail)
    /\ req.role = RolePatient /\ IsCaller(req, 2) /\ PathId(req).val = 2
    /\ resp.status = StatusOK
    /\ Len(resp.body.items) = 2

\* the from/to parameters parse and to is after from
HasValidRange(r) ==
    /\ r.query.from # Nil /\ r.query.to # Nil
    /\ timeParse(r.query.from[1]).ok /\ timeParse(r.query.to[1]).ok
    /\ timeParse(r.query.to[1]).t > timeParse(r.query.from[1]).t

\* the limit parameter is absent or an integer from 1 to max
HasValidLimit(r, max) ==
    \/ r.query.limit = Nil
    \/ /\ ParseInt(r.query.limit[1]).ok
       /\ ParseInt(r.query.limit[1]).val >= 1
       /\ ParseInt(r.query.limit[1]).val <= max

\* C8: on GET /analytics/top-drugs a patient's request reaches TopDrugs only
\* with patientID = the caller's X-User-ID; an admin's or physician's request
\* with a valid range and limit reaches it, with no patient restriction.
C8_TopDrugsScope ==
    (pc = "served" /\ IsTopDrugs(req)) =>
        /\ \A i \in 1..Len(calls) :
            /\ calls[i].op = "TopDrugs"
            /\ req.role = RolePatient =>
                   /\ calls[i].args[4] # Nil
                   /\ IsCaller(req, calls[i].args[4][1])
            /\ req.role \in {RoleAdmin, RolePhysician} => calls[i].args[4] = Nil
        /\ (req.role \in {RoleAdmin, RolePhysician} /\ HasValidRange(req)
                /\ HasValidLimit(req, MaxTopLimit)) => Len(calls) = 1
        /\ (req.role = RolePatient /\ (\E id \in 1..2 : IsCaller(req, id))
                /\ HasValidRange(req) /\ HasValidLimit(req, MaxTopLimit)) => Len(calls) = 1

\* patient 1 got the totals of their own prescriptions while patient 2 has one
\* in the range too
C8_Witness ==
    /\ pc = "served" /\ IsTopDrugs(req) /\ req.role = RolePatient /\ IsCaller(req, 1)
    /\ resp.status = StatusOK
    /\ calls[1].args[4] = Ptr(1)
    /\ Len(resp.body.items) > 0
    /\ \E pr \in prescriptions :
           /\ pr.patient_id = 2
           /\ pr.prescribed_at >= calls[1].args[1] /\ pr.prescribed_at < calls[1].args[2]

\* C9: on GET /analytics/top-drugs with a valid range, the limit given to
\* TopDrugs is 10 when the limit parameter is absent and the requested value
\* when it is an integer from 1 to 100; a 200 response echoes that limit.
C9_TopDrugsLimit ==
    (pc = "served" /\ IsTopDrugs(req) /\ HasValidRole(req) /\ HasValidRange(req)
        /\ HasValidLimit(req, MaxTopLimit)
        /\ (req.role = RolePatient => readUserID(req).ok)) =>
        LET expected == IF req.query.limit = Nil THEN 10
                        ELSE ParseInt(req.query.limit[1]).val
        IN  /\ Len(calls) = 1
            /\ calls[1].op = "TopDrugs"
            /\ calls[1].args[3] = expected
            /\ req.fault = "none" => resp.status = StatusOK
            /\ resp.status = StatusOK => resp.body.limit = expected

\* a limit of 100 was asked for and used
C9_Witness ==
    /\ pc = "served" /\ IsTopDrugs(req)
    /\ req.query.limit = Ptr(<<"1", "0", "0">>)
    /\ resp.status = StatusOK
    /\ calls[1].args[3] = 100
    /\ resp.body.limit = 100

\* the limit parameter is given and is no integer from 1 to max
HasInvalidLimit(r, max) == r.query.limit # Nil /\ ~HasValidLimit(r, max)

\* C10 as stated: a limit that is 0, negative, above the maximum (200 for
\* GET /prescriptions, 100 for GET /analytics/top-drugs) or not a number is
\* answered 400 and no repository operation is invoked.
C10_Original ==
    (pc = "served" /\ (\/ IsList(req) /\ HasInvalidLimit(req, MaxListLimit)
                       \/ IsTopDrugs(req) /\ HasInvalidLimit(req, MaxTopLimit)))
        => (resp.status = StatusBadRequest /\ calls = <<>>)

\* C10 amended: on a request with a valid X-Role, a limit value that is not
\* empty and is 0, negative, above the maximum (200 for GET /prescriptions, 100
\* for GET /analytics/top-drugs) or not a number is answered 400, never clamped
\* or replaced by the default, and no repository operation is invoked. (Without
\* a valid X-Role the answer is 401; an empty limit value counts as absent.)
C10_InvalidLimitRejected ==
    (pc = "served" /\ HasValidRole(req)
        /\ (\/ IsList(req) /\ HasInvalidLimit(req, MaxListLimit)
            \/ IsTopDrugs(req) /\ HasInvalidLimit(req, MaxTopLimit))
        /\ req.query.limit[1] # <<>>)
        => (resp.status = StatusBadRequest /\ calls = <<>>)

\* an admin asked for 201 prescriptions and got 400
C10_Witness ==
    /\ pc = "served" /\ IsList(req) /\ req.role = RoleAdmin
    /\ req.query.limit = Ptr(<<"2", "0", "1">>)
    /\ req.query.patient_id = Nil /\ req.query.physician_id = Nil
    /\ resp.status = StatusBadRequest
    /\ calls = <<>>

(***************************************************************************)
(* repo.go 127-140: FindOrCreateDrug called from several goroutines. The   *)
(* one statement INSERT ... ON CONFLICT (name) DO UPDATE ... RETURNING id  *)
(* runs in the store in steps: the new row takes its id from the sequence, *)
(* the unique index on drugs.name is probed, the row is inserted unless    *)
(* the index holds the name by then, and on a conflict the existing row is *)
(* updated and its id returned.                                            *)
(***************************************************************************)
\* names the calls are made with: one of the seed, two that are new
DrugCallNames == {Ibuprofen, Aspirin, PaddedIbuprofen}

\* the rows of drugs that carry the name
DrugsNamed(name) == {d \in drugs : d.name = name}

\* mutant: drugs.name has no unique index
UniqueViolation_NoIndex(name) == FALSE

\* schema.sql 15: name TEXT NOT NULL UNIQUE rejects a second row of the name
UniqueViolation(name) == DrugsNamed(name) # {}

\* r.pool.QueryRow(ctx, q, name): the statement starts; id BIGSERIAL takes
\* the next value of the sequence for the row to insert
FindOrCreateDrugCall(t) ==
    /\ inflight[t].pc = "idle"
    /\ drugs_id_seq < Cardinality(SeedDrugs) + 1 + MaxDrugCalls
    /\ \E name \in DrugCallNames :
           inflight' = [inflight EXCEPT
                            ![t] = [pc |-> "probe", name |-> name, seq |-> drugs_id_seq, id |-> 0]]
    /\ drugs_id_seq' = drugs_id_seq + 1
    /\ UNCHANGED <<patients, physicians, drugs, physician_patients, prescriptions,
                   prescriptions_id_seq, now, pc, req, resp, calls, audit, returned, result>>

\* ON CONFLICT (name): is there a row of this name already
DrugProbe(t) ==
    /\ inflight[t].pc = "probe"
    /\ inflight' = [inflight EXCEPT ![t].pc =
                        IF DrugsNamed(inflight[t].name) # {} THEN "update" ELSE "insert"]
    /\ UNCHANGED <<patients, physicians, drugs, physician_patients, prescriptions,
                   drugs_id_seq, prescriptions_id_seq, now, pc, req, resp, calls, audit,
                   returned, result>>

\* INSERT INTO drugs(name) VALUES ($1): the row goes in unless the unique index
\* holds the name by now, and then the conflict is looked up again
DrugInsert(t) ==
    /\ inflight[t].pc = "insert"
    /\ IF UniqueViolation(inflight[t].name)
       THEN /\ inflight' = [inflight EXCEPT ![t].pc = "probe"]
            /\ UNCHANGED drugs
       ELSE /\ drugs' = drugs \cup {[id |-> inflight[t].seq, name |-> inflight[t].name]}
            /\ inflight' = [inflight EXCEPT ![t].pc = "scan", ![t].id = inflight[t].seq]
    /\ UNCHANGED <<patients, physicians, physician_patients, prescriptions,
                   drugs_id_seq, prescriptions_id_seq, now, pc, req, resp, calls, audit,
                   returned, result>>

\* DO UPDATE SET name = EXCLUDED.name RETURNING id: the row of the name keeps
\* its id and its name
DrugUpdate(t) ==
    /\ inflight[t].pc = "update"
    /\ \E d \in DrugsNamed(inflight[t].name) :
           inflight' = [inflight EXCEPT ![t].pc = "scan", ![t].id = d.id]
    /\ UNCHANGED <<patients, physicians, drugs, physician_patients, prescriptions,
                   drugs_id_seq, prescriptions_id_seq, now, pc, req, resp, calls, audit,
                   returned, result>>

\* Scan(&id); return id, nil
DrugReturn(t) ==
    /\ inflight[t].pc = "scan"
    /\ returned' = returned \cup
           {[task |-> t, name |-> inflight[t].name, id |-> inflight[t].id]}
    /\ inflight' = [inflight EXCEPT ![t] = IdleTask]
    /\ UNCHANGED <<patients, physicians, drugs, physician_patients, prescriptions,
                   drugs_id_seq, prescriptions_id_seq, now, pc, req, resp, calls, audit,
                   result>>

NextDrug ==
    \E t \in 1..MaxTasks :
        \/ FindOrCreateDrugCall(t)
        \/ DrugProbe(t)
        \/ DrugInsert(t)
        \/ DrugUpdate(t)
        \/ DrugReturn(t)

SpecDrug == Init /\ [][NextDrug]_vars

\* the ids that calls have got so far: returned, or scanned and about to return
DrugResults ==
    returned \cup {[task |-> t, name |-> inflight[t].name, id |-> inflight[t].id] :
                   t \in {u \in 1..MaxTasks : inflight[u].pc = "scan"}}

\* C11: whatever the interleaving of FindOrCreateDrug calls, all calls with
\* the same name get the same id, which is the id of the row of that name, and
\* the drugs table never holds two rows of one name.
C11_FindOrCreateDrugIdempotent ==
    /\ \A d1, d2 \in drugs : d1.name = d2.name => d1 = d2
    /\ \A r1, r2 \in DrugResults : r1.name = r2.name => r1.id = r2.id
    /\ \A r \in DrugResults : [id |-> r.id, name |-> r.name] \in drugs

\* two calls for a name that was not there ran at the same time (each took its
\* own value of the sequence before either returned) and both got the one id
C11_Witness ==
    /\ inflight[1].pc = "scan" /\ inflight[2].pc = "scan"
    /\ inflight[1].name = Aspirin /\ inflight[2].name = Aspirin
    /\ inflight[1].seq # inflight[2].seq
    /\ inflight[1].id = inflight[2].id
    /\ returned = {}

(***************************************************************************)
(* repo.go 66-95 and 170-215: TopDrugs and ListPrescriptions applied on    *)
(* their own to prescription tables of any content (SpecRepo).             *)
(***************************************************************************)
\* the columns a row of a small table may carry
RowChoices == [patient_id : {1, 2}, physician_id : {1, 2}, drug_id : {1, 2},
               quantity : {10, 20}, prescribed_at : {1, 2}]
NoRow == [quantity |-> 0]

RowOf(i, c) ==
    [id |-> i, patient_id |-> c.patient_id, physician_id |-> c.physician_id,
     drug_id |-> c.drug_id, quantity |-> c.quantity, sig |-> SigBID,
     prescribed_at |-> c.prescribed_at]

SmallTables ==
    {{RowOf(i, f[i]) : i \in {j \in 1..MaxRows : f[j] # NoRow}} :
        f \in [1..MaxRows -> RowChoices \cup {NoRow}]}

\* one row more than the default limit of ListPrescriptions
LargeTable ==
    {RowOf(i, [patient_id |-> 1 + (i % 2), physician_id |-> 1, drug_id |-> 1 + (i % 3),
               quantity |-> 10, prescribed_at |-> i % 4]) :
        i \in 1..(RepoDefaultLimit + 1)}

\* one row more than the greatest limit of ListPrescriptions
FullTable ==
    {RowOf(i, [patient_id |-> 1 + (i % 2), physician_id |-> 1, drug_id |-> 1 + (i % 3),
               quantity |-> 10, prescribed_at |-> i % 4]) :
        i \in 1..(RepoMaxLimit + 1)}

InitRepo ==
    /\ patients = SeedPatients
    /\ physicians = SeedPhysicians
    /\ drugs = SeedDrugs
    /\ physician_patients = SeedLinks
    /\ prescriptions \in SmallTables \cup {LargeTable, FullTable}
    /\ drugs_id_seq = Cardinality(SeedDrugs) + 1
    /\ prescriptions_id_seq = RepoMaxLimit + 2
    /\ now = SeedNow
    /\ pc = "idle"
    /\ req = NoRequest
    /\ resp = NoResponse
    /\ calls = <<>>
    /\ audit = {}
    /\ inflight = [t \in 1..MaxTasks |-> IdleTask]
    /\ returned = {}
    /\ result = NoResult

\* r.TopDrugs(ctx, from, to, limit, patientID)
ApplyTopDrugs ==
    /\ result = NoResult
    /\ \E from \in {1, 2}, to \in {2, 3}, limit \in {1, 2, 5}, patientID \in {Nil, Ptr(1)} :
           result' = [op |-> "TopDrugs", args |-> <<from, to, limit, patientID>>,
                      items |-> TopDrugs(DB, from, to, limit, patientID, FALSE).items]
    /\ UNCHANGED <<patients, physicians, drugs, physician_patients, prescriptions,
                   drugs_id_seq, prescriptions_id_seq, now, pc, req, resp, calls, audit,
                   inflight, returned>>

\* r.ListPrescriptions(ctx, filter)
ApplyListPrescriptions ==
    /\ result = NoResult
    /\ \E filter \in [PatientID : {Nil, Ptr(1)}, PhysicianID : {Nil, Ptr(2)},
                      Limit : {-1, 0, 1, 2, RepoMaxLimit, RepoMaxLimit + 1}] :
           result' = [op |-> "ListPrescriptions", args |-> <<filter>>,
                      items |-> ListPrescriptions(DB, filter, FALSE).items]
    /\ UNCHANGED <<patients, physicians, drugs, physician_patients, prescriptions,
                   drugs_id_seq, prescriptions_id_seq, now, pc, req, resp, calls, audit,
                   inflight, returned>>

NextRepo == ApplyTopDrugs \/ ApplyListPrescriptions

SpecRepo == InitRepo /\ [][NextRepo]_vars

\* the quantities of the rows with an id in lo..hi, added up
RECURSIVE QuantityOfIds(_, _, _)
QuantityOfIds(rows, lo, hi) ==
    IF lo > hi THEN 0
    ELSE IF lo = hi
    THEN IF \E pr \in rows : pr.id = lo THEN (CHOOSE pr \in rows : pr.id = lo).quantity ELSE 0
    ELSE LET mid == (lo + hi) \div 2
         IN  QuantityOfIds(rows, lo, mid) + QuantityOfIds(rows, mid + 1, hi)
Quantity(rows) == QuantityOfIds(rows, 1, RepoMaxLimit + 1)

\* the prescriptions TopDrugs is to count for the arguments of the result
Counted ==
    {pr \in prescriptions :
        /\ result.args[1] <= pr.prescribed_at
        /\ pr.prescribed_at < result.args[2]
        /\ result.args[4] # Nil => pr.patient_id = result.args[4][1]}

\* C12: TopDrugs counts a prescription exactly if from <= prescribed_at < to
\* and, with a patientID, it is that patient's: every total is the sum over these
\* rows, and each of their drugs is in the result unless the limit cut it.
C12_TopDrugsHalfOpenRange ==
    result.op = "TopDrugs" =>
        /\ \A i \in 1..Len(result.items) :
               result.items[i].total_quantity =
                   Quantity({pr \in Counted : pr.drug_id = result.items[i].drug_id})
        /\ \A pr \in Counted :
               \/ \E i \in 1..Len(result.items) : result.items[i].drug_id = pr.drug_id
               \/ Len(result.items) = result.args[3]

\* a row exactly at from was counted and a row exactly at to was not
C12_Witness ==
    /\ result.op = "TopDrugs"
    /\ \E a, b \in prescriptions :
           /\ a.prescribed_at = result.args[1] /\ b.prescribed_at = result.args[2]
           /\ a.drug_id # b.drug_id
           /\ Cardinality(prescriptions) = 2
           /\ result.args[4] = Nil
           /\ Len(result.items) = 1
           /\ result.items[1].drug_id = a.drug_id
           /\ result.items[1].total_quantity = a.quantity

\* the drugs with a counted prescription, and the order the result is to have
CountedDrugs == {pr.drug_id : pr \in Counted}
CountedTotal(d) == Quantity({pr \in Counted : pr.drug_id = d})
RanksBefore(d1, d2) ==
    \/ CountedTotal(d1) > CountedTotal(d2)
    \/ CountedTotal(d1) = CountedTotal(d2) /\ d1 < d2

\* C13: the result of TopDrugs has one entry per drug with a counted
\* prescription, its total_quantity the sum of the counted quantities, entries
\* by total_quantity descending and then drug id ascending, cut to the first
\* limit entries; a drug without a counted prescription is not in it.
C13_TopDrugsRanking ==
    result.op = "TopDrugs" =>
        /\ Len(result.items) = Min(result.args[3], Cardinality(CountedDrugs))
        /\ \A i \in 1..Len(result.items) :
               LET item == result.items[i]
               IN  /\ item.drug_id \in CountedDrugs
                   /\ item.total_quantity = CountedTotal(item.drug_id)
                   /\ item.total_quantity > 0
                   /\ item.drug_name = NameOf(drugs, item.drug_id)
                   /\ Cardinality({d \in CountedDrugs : RanksBefore(d, item.drug_id)}) = i - 1

\* two drugs tie on the total and the limit of 1 keeps the lower drug id
C13_Witness ==
    /\ result.op = "TopDrugs"
    /\ result.args[3] = 1
    /\ Cardinality(CountedDrugs) = 2
    /\ \A d \in CountedDrugs : CountedTotal(d) = 10
    /\ Len(result.items) = 1
    /\ result.items[1].drug_id = 1
    /\ result.items[1].total_quantity = 10

\* the prescriptions ListPrescriptions is to return for the filter of the result
Listed ==
    {pr \in prescriptions :
        /\ result.args[1].PatientID # Nil => pr.patient_id = result.args[1].PatientID[1]
        /\ result.args[1].PhysicianID # Nil => pr.physician_id = result.args[1].PhysicianID[1]}

\* the limit in force: the filter's when it is 1..200, the default of 50 otherwise
LimitInForce ==
    IF result.args[1].Limit >= 1 /\ result.args[1].Limit <= 200
    THEN result.args[1].Limit ELSE 50

ListedBefore(a, b) ==
    \/ a.prescribed_at > b.prescribed_at
    \/ a.prescribed_at = b.prescribed_at /\ a.id > b.id

\* C14: ListPrescriptions returns at most limit items (50 with the default
\* limit), the first of the matching prescriptions by prescribed_at descending
\* and then id descending, and every item satisfies each filter field that is set.
C14_ListNewestFirst ==
    result.op = "ListPrescriptions" =>
        /\ Len(result.items) = Min(LimitInForce, Cardinality(Listed))
        /\ Len(result.items) <= LimitInForce
        /\ \A i \in 1..Len(result.items) :
               \E pr \in Listed :
                   /\ result.items[i].id = pr.id
                   /\ result.items[i].patient_id = pr.patient_id
                   /\ result.items[i].physician_id = pr.physician_id
                   /\ result.items[i].drug_id = pr.drug_id
                   /\ result.items[i].quantity = pr.quantity
                   /\ result.items[i].prescribed_at = pr.prescribed_at
                   /\ Cardinality({o \in Listed : ListedBefore(o, pr)}) = i - 1

\* 51 prescriptions, no filter, the default limit: the 50 newest came back, the
\* higher id first among those of one prescribed_at
C14_Witness ==
    /\ result.op = "ListPrescriptions"
    /\ result.args[1] = [PatientID |-> Nil, PhysicianID |-> Nil, Limit |-> 0]
    /\ Cardinality(prescriptions) = 51
    /\ Len(result.items) = 50
    /\ result.items[1].prescribed_at = result.items[2].prescribed_at
    /\ result.items[1].id > result.items[2].id
    /\ \E pr \in prescriptions : \A i \in 1..50 : result.items[i].id # pr.id

(***************************************************************************)
(* Properties of all the routes (Spec).                                    *)
(***************************************************************************)
\* the path is {id}/patients or {id}/physicians, whatever the id
HasTail(r, tail) ==
    /\ FirstSlash(r.rest) > 0
    /\ SubSeq(r.rest, FirstSlash(r.rest), Len(r.rest)) = tail

\* a request that the mux hands to the handler of a protected route
IsProtected(r) ==
    \/ r.route = "/prescriptions" /\ r.method \in {"GET", "POST"}
    \/ IsTopDrugs(r)
    \/ r.route = "/physicians/" /\ HasTail(r, PatientsTail)
    \/ r.route = "/patients/" /\ HasTail(r, PhysiciansTail)

\* C15: a request to a protected route (POST /prescriptions, GET /prescriptions,
\* GET /analytics/top-drugs, /physicians/{id}/patients, /patients/{id}/physicians)
\* whose X-Role is absent or is not exactly admin, physician or patient is
\* answered 401, no repository operation is invoked and the store is unchanged.
C15_NoRoleUnauthorized ==
    [][(pc' = "served" /\ IsProtected(req') /\ ~HasValidRole(req'))
        => (resp'.status = StatusUnauthorized /\ calls' = <<>> /\ UNCHANGED store)]_vars

\* /physicians/x/patients with X-Role: Admin was answered 401, before the id
\* of the path was looked at
C15_Witness ==
    /\ pc = "served"
    /\ req.route = "/physicians/" /\ req.rest = <<"x">> \o PatientsTail
    /\ req.role = "Admin"
    /\ resp.status = StatusUnauthorized
    /\ calls = <<>>

(***************************************************************************)
(* Properties of the stored prescriptions (SpecCreate).                    *)
(***************************************************************************)
\* every stored prescription references an existing patient, physician and drug
AllReferencesResolve ==
    \A pr \in prescriptions :
        /\ pr.patient_id \in Ids(patients)
        /\ pr.physician_id \in Ids(physicians)
        /\ pr.drug_id \in Ids(drugs)

\* the last repository call of the request is CreatePrescription, with a row
\* whose patient, physician or drug does not exist, and the statement ran
CreateWithBadReference(r, cs, drugTable) ==
    /\ cs # <<>>
    /\ cs[Len(cs)].op = "CreatePrescription"
    /\ r.fault # "CreatePrescription"
    /\ LET p == cs[Len(cs)].args[1]
       IN  \/ p.PatientID \notin Ids(patients)
           \/ p.PhysicianID \notin Ids(physicians)
           \/ p.DrugID \notin Ids(drugTable)

\* C16: when CreatePrescription fails because patient_id, physician_id or
\* drug_id references no row, the create request is answered 400 and no
\* prescription is added; every stored prescription references an existing
\* patient, physician and drug in every reachable state.
C16_InvalidReferenceIs400 ==
    /\ []AllReferencesResolve
    /\ [][(pc' = "served" /\ IsPost(req') /\ CreateWithBadReference(req', calls', drugs'))
            => (resp'.status = StatusBadRequest /\ prescriptions' = prescriptions)]_vars

\* a create that names drug 9 reached CreatePrescription and was answered 400
C16_Witness ==
    /\ pc = "served" /\ IsPost(req)
    /\ CreateWithBadReference(req, calls, drugs)
    /\ req.body.drug_id = 9
    /\ resp.status = StatusBadRequest
    /\ prescriptions = SeedPrescriptions

(***************************************************************************)
(* Properties of the stored prescriptions under all the routes (Spec).     *)
(***************************************************************************)
\* C17: a prescription is immutable once created: a row that exists before a
\* request exists after it with the same id, patient_id, physician_id, drug_id,
\* quantity, sig and prescribed_at; no request updates or deletes one.
C17_PrescriptionsImmutable ==
    [][\A pr \in prescriptions :
           \E kept \in prescriptions' :
               /\ kept.id = pr.id
               /\ kept.patient_id = pr.patient_id
               /\ kept.physician_id = pr.physician_id
               /\ kept.drug_id = pr.drug_id
               /\ kept.quantity = pr.quantity
               /\ kept.sig = pr.sig
               /\ kept.prescribed_at = pr.prescribed_at]_vars

\* a prescription was created for patient 1 and drug 1, as seed row 1 is, and a
\* later request listed both
C17_Witness ==
    /\ pc = "served" /\ IsList(req) /\ req.role = RoleAdmin
    /\ resp.status = StatusOK
    /\ SeedPrescriptions \subseteq prescriptions
    /\ \E pr \in prescriptions \ SeedPrescriptions : pr.patient_id = 1 /\ pr.drug_id = 1
    /\ Len(resp.body.items) = Cardinality(prescriptions)

(***************************************************************************)
(* Properties of GET /analytics/top-drugs (Spec).                          *)
(***************************************************************************)
\* every TopDrugs call of the request has to strictly after from
RangeOfCallsValid == \A i \in 1..Len(calls) : calls[i].args[2] > calls[i].args[1]

\* C18 as stated: GET /analytics/top-drugs is answered 400, with no repository
\* call, whenever from or to is missing or does not parse or to is not strictly
\* after from; the repository is called only with to strictly after from.
C18_Original ==
    (pc = "served" /\ IsTopDrugs(req)) =>
        /\ ~HasValidRange(req) => (resp.status = StatusBadRequest /\ calls = <<>>)
        /\ RangeOfCallsValid

\* C18 amended: GET /analytics/top-drugs with a valid X-Role is answered 400,
\* with no repository call, whenever from or to is missing or does not parse or
\* to is not strictly after from (to equal to from included); without a valid
\* X-Role the answer is 401; the repository is called only with to strictly
\* after from.
C18_BadRangeRejected ==
    (pc = "served" /\ IsTopDrugs(req)) =>
        /\ (HasValidRole(req) /\ ~HasValidRange(req)) =>
               (resp.status = StatusBadRequest /\ calls = <<>>)
        /\ (~HasValidRole(req) /\ ~HasValidRange(req)) =>
               (resp.status = StatusUnauthorized /\ calls = <<>>)
        /\ RangeOfCallsValid

\* from and to are different texts of one instant and the answer is 400
C18_Witness ==
    /\ pc = "served" /\ IsTopDrugs(req) /\ req.role = RoleAdmin
    /\ req.query.from = Ptr(Rfc3339(3, 0)) /\ req.query.to = Ptr(Rfc3339(4, 1))
    /\ req.query.limit = Nil
    /\ resp.status = StatusBadRequest
    /\ calls = <<>>

(***************************************************************************)
(* Properties of the drug name of a create request (SpecCreate).           *)
(***************************************************************************)
\* white space characters of a text
WhiteSpace == {" ", "\t", "\n", "\r"}
IsWhiteSpaceOnly(text) == \A i \in 1..Len(text) : text[i] \in WhiteSpace

\* C19: a create request with no positive drug_id and a drug_name that is not
\* empty but all white space is rejected with 400, and FindOrCreateDrug is never
\* called with a name that is empty once trimmed. Stated for the requests that
\* get as far as resolving the drug: a physician creating as themselves for a
\* linked patient with a body that passes validate, the link check answering.
C19_WhiteSpaceNameRejected ==
    (pc = "served" /\ IsPost(req) /\ LinkedSelfCreate(req)
        /\ req.fault # "IsPhysicianPatientLinked"
        /\ req.body.drug_id <= 0 /\ IsWhiteSpaceOnly(req.body.drug_name)) =>
        /\ resp.status = StatusBadRequest
        /\ \A i \in 1..Len(calls) :
               calls[i].op = "FindOrCreateDrug" => ~IsWhiteSpaceOnly(calls[i].args[1])

(***************************************************************************)
(* Properties of the caller id on all the routes (Spec).                   *)
(***************************************************************************)
\* X-User-ID is absent, is not a number or is zero or below
HasInvalidCallerID(r) ==
    \/ r.user_id = <<>>
    \/ ~ParseInt(r.user_id).ok
    \/ ParseInt(r.user_id).val <= 0

\* the limit parameter is absent, empty or an integer from 1 to max
LimitAccepted(r, max) ==
    HasValidLimit(r, max) \/ (r.query.limit # Nil /\ r.query.limit[1] = <<>>)

\* the requests whose access rule compares the caller's own id, and that pass
\* the checks made before it
NeedsCallerID(r) ==
    \/ IsPost(r) /\ r.role = RolePhysician
    \/ IsList(r) /\ r.role \in {RolePhysician, RolePatient} /\ LimitAccepted(r, MaxListLimit)
    \/ OnSubroute(r, "/physicians/", PatientsTail) /\ r.role = RolePhysician
    \/ OnSubroute(r, "/patients/", PhysiciansTail) /\ r.role = RolePatient
    \/ IsTopDrugs(r) /\ r.role = RolePatient /\ HasValidRange(r)
           /\ LimitAccepted(r, MaxTopLimit)

\* the requests that are answered without a look at X-User-ID
IgnoresCallerID(r) ==
    \/ IsProtected(r) /\ r.role = RoleAdmin
    \/ IsTopDrugs(r) /\ r.role = RolePhysician
    \/ IsPost(r) /\ r.role = RolePatient
    \/ r.route = "/physicians/" /\ HasTail(r, PatientsTail) /\ r.role = RolePatient
    \/ r.route = "/patients/" /\ HasTail(r, PhysiciansTail) /\ r.role = RolePhysician

\* C20 as stated: on every protected route other than the analytics, a request
\* whose X-User-ID is absent, not a number or <= 0 is answered 401.
C20_Original ==
    (pc = "served" /\ IsProtected(req) /\ ~IsTopDrugs(req) /\ HasInvalidCallerID(req))
        => resp.status = StatusUnauthorized

\* C20 amended: X-User-ID is required where the access rule needs the caller's
\* own id: a physician on POST /prescriptions, a physician or patient on
\* GET /prescriptions, a physician on /physicians/{id}/patients, a patient on
\* /patients/{id}/physicians and on GET /analytics/top-drugs. There a request
\* that passes the earlier checks (limit, id of the path, from/to) with an
\* X-User-ID that is absent, not a number or <= 0 is answered 401 with no
\* repository call. An admin on any route, a physician on the analytics and a
\* caller whose role the route forbids are never answered 401 for X-User-ID.
C20_CallerIDRequiredWhereCompared ==
    (pc = "served" /\ HasInvalidCallerID(req)) =>
        /\ NeedsCallerID(req) => (resp.status = StatusUnauthorized /\ calls = <<>>)
        /\ IgnoresCallerID(req) => resp.status # StatusUnauthorized

\* a patient listing prescriptions with X-User-ID: -1 was answered 401
C20_Witness ==
    /\ pc = "served" /\ IsList(req) /\ req.role = RolePatient
    /\ req.user_id = <<"-", "1">>
    /\ req.query.limit = Ptr(Str2)
    /\ resp.status = StatusUnauthorized
    /\ calls = <<>>

(***************************************************************************)
(* Properties of the paths under /physicians/ and /patients/ (Spec).       *)
(***************************************************************************)
\* the id segment of the path is not a number or is zero or below
HasMalformedPathId(r) ==
    /\ FirstSlash(r.rest) > 0
    /\ ~PathId(r).ok \/ PathId(r).val <= 0

\* the tail that the route of the request knows
KnownTail(r) == IF r.route = "/physicians/" THEN PatientsTail ELSE PhysiciansTail

\* C21: a request to /physicians/{id}/patients or /patients/{id}/physicians
\* whose id segment is malformed (not a number, zero or negative) is answered
\* 404, as is a request whose tail segment is unknown or missing. Stated for
\* requests with a valid X-Role.
C21_MalformedPathNotFound ==
    (pc = "served" /\ req.route \in {"/physicians/", "/patients/"} /\ HasValidRole(req)) =>
        /\ ~HasTail(req, KnownTail(req)) => resp.status = StatusNotFound
        /\ (HasTail(req, KnownTail(req)) /\ HasMalformedPathId(req)) =>
               resp.status = StatusNotFound

(***************************************************************************)
(* Properties of the order of checks and store calls in a create request   *)
(* (SpecCreate).                                                           *)
(***************************************************************************)
\* the answers of POST /prescriptions that come from the store
ErrorText(r) == IF "error" \in DOMAIN r.body THEN r.body.error ELSE ""
InvalidReferenceText == "invalid patient_id, physician_id, or drug_id"
NotLinkedText == "physician not linked to patient"

\* C22: whenever POST /prescriptions is answered 400 for a validation reason
\* (any 400 but that of an invalid reference found by the store) or 403 for an
\* access reason other than the link check, no repository operation has been
\* invoked during the request.
C22_RejectedBeforeStoreCall ==
    (pc = "served" /\ IsPost(req)
        /\ \/ resp.status = StatusBadRequest /\ ErrorText(resp) # InvalidReferenceText
           \/ resp.status = StatusForbidden /\ ErrorText(resp) # NotLinkedText)
        => calls = <<>>

\* the repository operations that can insert a row
WritingOps == {"FindOrCreateDrug", "CreatePrescription"}

\* C23: each handler issues at most one logical write: during one request at
\* most one repository operation that can insert a row (FindOrCreateDrug,
\* CreatePrescription) is executed.
C23_AtMostOneWrite ==
    pc = "served" => Cardinality({i \in 1..Len(calls) : calls[i].op \in WritingOps}) <= 1

\* the request executed the statement that its fault names
FaultStruck(r, cs) == \E i \in 1..Len(cs) : cs[i].op = r.fault

\* C24: a repository failure during a create request other than
\* InvalidReference is answered 500; when the store fails while the
\* physician-patient link is checked the answer is 500 and not 403.
C24_StoreFailureIsInternal ==
    (pc = "served" /\ IsPost(req) /\ FaultStruck(req, calls))
        => resp.status = StatusInternalServerError

(***************************************************************************)
(* server.go 135-151: createPrescriptionReq.validate applied to decoded    *)
(* requests, the lengths at and just over the limits among them.           *)
(***************************************************************************)
Repeat(c, n) == [i \in 1..n |-> c]

\* the decoded requests validate is applied to
ValidateInputs ==
    [PatientID : {0, 1}, PhysicianID : {-1, 1}, DrugID : {0, 1},
     DrugName : {<<>>, Aspirin, Repeat("x", MaxDrugNameLen), Repeat("x", MaxDrugNameLen + 1)},
     Quantity : {0, 1},
     Sig : {<<>>, SigBID, Repeat("s", MaxSigLen), Repeat("s", MaxSigLen + 1)}]

ApplyValidate ==
    /\ result = NoResult
    /\ \E b \in ValidateInputs :
           result' = [op |-> "validate", args |-> <<b>>, items |-> <<validate(b)>>]
    /\ UNCHANGED <<store, now, pc, req, resp, calls, audit, inflight, returned>>

NextValidate == ApplyValidate

SpecValidate == Init /\ [][NextValidate]_vars

\* the rules of the specification, in their order: whether b satisfies rule k
RuleHolds(b, k) ==
    CASE k = 1 -> b.PatientID > 0
      [] k = 2 -> b.PhysicianID > 0
      [] k = 3 -> b.DrugID > 0 \/ (Len(b.DrugName) > 0 /\ Len(b.DrugName) <= MaxDrugNameLen)
      [] k = 4 -> b.Quantity > 0
      [] k = 5 -> Len(b.Sig) > 0
      [] k = 6 -> Len(b.Sig) <= MaxSigLen

\* the messages that report a violation of rule k
RuleMessages(k) ==
    CASE k = 1 -> {"patient_id must be > 0"}
      [] k = 2 -> {"physician_id must be > 0"}
      [] k = 3 -> {"either drug_id (>0) or drug_name is required", "drug_name too long"}
      [] k = 4 -> {"quantity must be > 0"}
      [] k = 5 -> {"sig is required"}
      [] k = 6 -> {"sig too long"}

Violated(b) == {k \in 1..6 : ~RuleHolds(b, k)}

FirstViolated(b) == CHOOSE k \in Violated(b) : \A j \in Violated(b) : k <= j

RECURSIVE StripWhiteSpace(_)
\* text without its leading and trailing white space
StripWhiteSpace(text) ==
    IF text # <<>> /\ text[1] \in WhiteSpace THEN StripWhiteSpace(Tail(text))
    ELSE IF text # <<>> /\ text[Len(text)] \in WhiteSpace
    THEN StripWhiteSpace(SubSeq(text, 1, Len(text) - 1))
    ELSE text

\* the request resolved its drug by name and the store answered
ResolvedByName(r, cs) ==
    /\ r.fault # "FindOrCreateDrug"
    /\ \E i \in 1..Len(cs) : cs[i].op = "FindOrCreateDrug"

\* C26: drug names that differ only by leading or trailing white space resolve
\* to the same drug and make at most one drug row (names that differ in letter
\* case are distinct drugs; with drug_id > 0 FindOrCreateDrug is not called and
\* the drugs table is unchanged): once a create has resolved its drug by name,
\* the drugs table holds one row whose name is the request's drug_name up to
\* leading and trailing white space.
C26_OneDrugPerTrimmedName ==
    (pc = "served" /\ IsPost(req) /\ ResolvedByName(req, calls)) =>
        Cardinality({d \in drugs :
                        StripWhiteSpace(d.name) = StripWhiteSpace(req.body.drug_name)}) = 1

(***************************************************************************)
(* Properties of the limit of ListPrescriptions (SpecRepo).                *)
(***************************************************************************)
\* C27: ListPrescriptions clamps the limit of the filter to [1,200]: it never
\* returns more than 200 items, a limit of 1..200 is used as given, and a limit
\* that is unset (0) or out of range stands for the default of 50.
C27_LimitClamped ==
    result.op = "ListPrescriptions" =>
        LET limit == result.args[1].Limit
            used == IF Len(result.items) < Cardinality(Listed)
                    THEN {Len(result.items)}
                    ELSE {n \in 1..(RepoMaxLimit + 1) : n >= Len(result.items)}
        IN  /\ Len(result.items) <= 200
            /\ (limit >= 1 /\ limit <= 200) => limit \in used
            /\ (limit <= 0 \/ limit > 200) => 50 \in used /\ Len(result.items) <= 50

\* of 201 prescriptions, a limit of 200 returns 200
C27_Witness ==
    /\ result.op = "ListPrescriptions"
    /\ Cardinality(Listed) = 201
    /\ result.args[1].Limit = 200
    /\ Len(result.items) = 200

(***************************************************************************)
(* Properties of what a create request leaves in the store (SpecCreate).   *)
(***************************************************************************)
\* the last repository call of the request was CreatePrescription
EndedInInsert(cs) == cs # <<>> /\ cs[Len(cs)].op = "CreatePrescription"

\* C28: a POST /prescriptions answered with a status other than 201 adds no
\* prescription row; the one change it can leave in the store is a new drug
\* row, when the drug was resolved by a name no drug had and the insert of the
\* prescription then failed.
C28_FailedCreateLeavesAtMostADrug ==
    [][(pc = "idle" /\ pc' = "served" /\ IsPost(req') /\ resp'.status # StatusCreated) =>
          /\ prescriptions' = prescriptions
          /\ UNCHANGED <<patients, physicians, physician_patients>>
          /\ \/ drugs' = drugs
             \/ /\ req'.body.drug_id <= 0
                /\ \A d \in drugs : d.name # TrimSpaces(req'.body.drug_name)
                /\ \E d \in drugs' \ drugs :
                       /\ d.name = TrimSpaces(req'.body.drug_name)
                       /\ drugs' = drugs \cup {d}
                /\ EndedInInsert(calls')
                /\ resp'.status = StatusInternalServerError]_vars

\* a create by the new name Aspirin whose insert failed: answered 500, the
\* drug Aspirin stays and no prescription refers to it
C28_Witness ==
    /\ pc = "served" /\ IsPost(req)
    /\ resp.status = StatusInternalServerError
    /\ req.body.drug_name = Aspirin
    /\ EndedInInsert(calls)
    /\ \E d \in drugs : d.name = Aspirin /\ \A pr \in prescriptions : pr.drug_id # d.id

(***************************************************************************)
(* server.go 163-231: create requests served in MaxTasks goroutines at     *)
(* once (net/http runs each request in its own goroutine). A handler holds *)
(* no lock and opens no transaction: between two of its repository calls   *)
(* the other handlers' statements take effect in the store. Each           *)
(* repository call is one statement (SpecConcurrent).                      *)
(***************************************************************************)
ConcurrentCreateRequests ==
    [method : {"POST"}, route : {"/prescriptions"}, role : {RolePhysician},
     user_id : {Str1}, query : {NoQuery},
     body : {SampleBody(1, 1, 1, <<>>), SampleBody(2, 1, 0, Aspirin),
             SampleBody(1, 1, 0, Blank)},
     fault : {"none", "CreatePrescription"}]
    \cup
    [method : {"POST"}, route : {"/prescriptions"}, role : {RolePhysician},
     user_id : {Str2}, query : {NoQuery},
     body : {SampleBody(2, 2, 0, Aspirin), SampleBody(1, 2, 1, <<>>),
             SampleBody(2, 1, 1, <<>>)},
     fault : {"none", "CreatePrescription"}]

\* a goroutine that has written its response
Answered(r, out) ==
    [pc |-> "done", r |-> r, drug |-> 0, status |-> out.status, body |-> out.body]

\* server.go 173-198: the request arrives and passes, or not, the checks made
\* before the first repository call
BeginCreate(t) ==
    /\ inflight[t].pc = "idle"
    /\ \E r \in ConcurrentCreateRequests :
           \E out \in {handleCreatePrescription(r, DB)} :
               inflight' = [inflight EXCEPT ![t] =
                   IF out.calls = <<>> THEN Answered(r, out)
                   ELSE [pc |-> "link", r |-> r, drug |-> 0, status |-> 0, body |-> Nil]]
    /\ UNCHANGED <<store, now, pc, req, resp, calls, audit, returned, result>>

\* server.go 199-201
CheckLink(t) ==
    /\ inflight[t].pc = "link"
    /\ LET r == inflight[t].r
           link == IsPhysicianPatientLinked(DB, readUserID(r).id, r.body.patient_id,
                                            r.fault = "IsPhysicianPatientLinked")
       IN  inflight' = [inflight EXCEPT ![t] =
               IF link.err # ErrNone
               THEN Answered(r, ReplyError(StatusInternalServerError, "link check failed",
                                           <<>>, DB))
               ELSE IF ~link.linked
               THEN Answered(r, ReplyError(StatusForbidden, "physician not linked to patient",
                                           <<>>, DB))
               ELSE [@ EXCEPT !.pc = "drug"]]
    /\ UNCHANGED <<store, now, pc, req, resp, calls, audit, returned, result>>

\* server.go 203-215
ResolveDrugStep(t) ==
    /\ inflight[t].pc = "drug"
    /\ LET r == inflight[t].r
           name == TrimSpaces(r.body.drug_name)
       IN  IF r.body.drug_id > 0
           THEN /\ inflight' = [inflight EXCEPT ![t].pc = "insert", ![t].drug = r.body.drug_id]
                /\ UNCHANGED <<drugs, drugs_id_seq>>
           ELSE IF name = <<>>
           THEN /\ inflight' = [inflight EXCEPT ![t] =
                       Answered(r, ReplyError(StatusBadRequest, "drug_name cannot be blank",
                                              <<>>, DB))]
                /\ UNCHANGED <<drugs, drugs_id_seq>>
           ELSE \E found \in {FindOrCreateDrug(DB, name, r.fault = "FindOrCreateDrug")} :
                    /\ inflight' = [inflight EXCEPT ![t] =
                           IF found.err # ErrNone
                           THEN Answered(r, ReplyError(StatusInternalServerError,
                                                       "failed to resolve drug", <<>>, DB))
                           ELSE [@ EXCEPT !.pc = "insert", !.drug = found.id]]
                    /\ drugs' = found.db.drugs
                    /\ drugs_id_seq' = found.db.drugs_id_seq
    /\ UNCHANGED <<patients, physicians, physician_patients, prescriptions,
                   prescriptions_id_seq, now, pc, req, resp, calls, audit, returned, result>>

\* server.go 217-230
InsertStep(t) ==
    /\ inflight[t].pc = "insert"
    /\ LET r == inflight[t].r
       IN  \E out \in {InsertPrescription(r, Decode(r.body), inflight[t].drug, <<>>, DB)} :
               /\ inflight' = [inflight EXCEPT ![t] = Answered(r, out)]
               /\ prescriptions' = out.db.prescriptions
               /\ prescriptions_id_seq' = out.db.prescriptions_id_seq
    /\ UNCHANGED <<patients, physicians, drugs, physician_patients, drugs_id_seq,
                   now, pc, req, resp, calls, audit, returned, result>>

NextConcurrent ==
    \E t \in 1..MaxTasks :
        \/ BeginCreate(t)
        \/ CheckLink(t)
        \/ ResolveDrugStep(t)
        \/ InsertStep(t)

SpecConcurrent == Init /\ [][NextConcurrent]_vars

\* the goroutines whose request was answered 201
Created == {t \in 1..MaxTasks : inflight[t].pc = "done" /\ inflight[t].status = StatusCreated}

\* C29: create requests served at once and answered 201 have prescription ids
\* that differ, and the row of each is in the table afterwards, in every
\* interleaving: none overwrites or loses another's insert, none waits for
\* another, also when they resolve the same new drug name.
C29_ConcurrentCreatesKeepBothRows ==
    /\ \A t \in Created : inflight[t].body \in prescriptions
    /\ \A t \in Created : \A u \in Created : t # u => inflight[t].body.id # inflight[u].body.id
    /\ \A t \in Created : \A u \in Created :
           (inflight[t].r.body.drug_id <= 0 /\ inflight[u].r.body.drug_id <= 0
               /\ TrimSpaces(inflight[t].r.body.drug_name) = TrimSpaces(inflight[u].r.body.drug_name))
               => inflight[t].body.drug_id = inflight[u].body.drug_id
    /\ \A t \in 1..MaxTasks :
           /\ inflight[t].pc = "link" => ENABLED CheckLink(t)
           /\ inflight[t].pc = "drug" => ENABLED ResolveDrugStep(t)
           /\ inflight[t].pc = "insert" => ENABLED InsertStep(t)

\* two requests by the new name Aspirin served at once: both answered 201, with
\* two ids and the one drug
C29_Witness ==
    /\ Created = {1, 2}
    /\ inflight[1].r.body.drug_name = Aspirin /\ inflight[2].r.body.drug_name = Aspirin
    /\ inflight[1].body.drug_id = inflight[2].body.drug_id
    /\ inflight[1].body.id # inflight[2].body.id
    /\ {inflight[1].body, inflight[2].body} \subseteq prescriptions

(***************************************************************************)
(* Properties of what the routes leave in the store (Spec).                *)
(***************************************************************************)
tables == <<patients, physicians, drugs, physician_patients, prescriptions>>

\* the statuses of a request turned away
TurnedAway ==
    {StatusUnauthorized, StatusForbidden, StatusNotFound, StatusMethodNotAllowed}

\* C30: the read routes (GET /prescriptions, GET /analytics/top-drugs,
\* /physicians/{id}/patients, /patients/{id}/physicians, /healthz, /readyz) and
\* every request answered 401, 403, 404 or 405 leave the five tables unchanged;
\* the store changes only through FindOrCreateDrug and CreatePrescription
\* inside POST /prescriptions.
C30_OnlyCreateWrites ==
    [][(pc = "idle" /\ pc' = "served") =>
          /\ (~IsPost(req') \/ resp'.status \in TurnedAway) => UNCHANGED tables
          /\ ~(UNCHANGED tables) =>
                 /\ IsPost(req')
                 /\ \E i \in 1..Len(calls') : calls'[i].op \in WritingOps
          /\ \A i \in 1..Len(calls') : calls'[i].op \in WritingOps => IsPost(req')]_vars

\* physician 2 asked to create for patient 1, who is not theirs, by the new name
\* Aspirin: 403 and no drug Aspirin
C30_Witness ==
    /\ pc = "served" /\ IsPost(req)
    /\ req.body.drug_name = Aspirin /\ req.body.patient_id = 1 /\ req.user_id = Str2
    /\ resp.status = StatusForbidden
    /\ calls # <<>>
    /\ \A d \in drugs : d.name # Aspirin
====
